---- MODULE Spec2Model ----
(***************************************************************************)
(* Retry Orchestrator of the reconciler agent (retry_transaction_tool),     *)
(* discrepancy classifier of the host agent (run_discrepancy_check),       *)
(* report generator of the escalator agent (create_and_save_report) and    *)
(* the PostgreSQL store they talk to.  Every call opens its own            *)
(* connection; each statement is awaited, so calls interleave statement by *)
(* statement under READ COMMITTED.                                         *)
(***************************************************************************)
EXTENDS Integers, Sequences, FiniteSets, TLC

\* ------------------------------------------------------------------ bounds
\* Number of retry_transaction_tool calls made by the owner of the
\* transaction; call c arrives before call c+1.
NumCalls == 3
\* Number of calls when callers, user scopes and targets vary.
NumScopedCalls == 2
\* Number of run_discrepancy_check calls.
NumChecks == 1
\* Number of create_and_save_report calls.
NumReports == 2
\* Seconds the clock advances while reports are created.
MaxNow == 1
\* Number of send_message_to_remote_agent calls.
NumSends == 2
\* Number of requests to the endpoints of the API server.
NumRequests == 2
\* Number of events the agent yields before its final response.
MaxUpdates == 1
\* Number of get_transaction_status and of fetch_transaction_details calls.
NumQueries == 1

\* -------------------------------------------------------- program constants
\* "if retry_count >= 2" (max 2 retries)
RetryLimit == 2
\* TRYBEDiscrepancyDetector._THRESHOLD_MIN
_THRESHOLD_MIN == 10
\* DUMMY_USER_ID of the host agent's database tools
DUMMY_USER_ID == "user_1"

None == "None"

Users == {"user_1", "user_2"}

\* Transaction ids are character sequences, so that the LIKE pattern of the
\* attempt count can be evaluated on them.
TXN_A == <<"A">>
TXN_BA == <<"B", "A">>
EMPTY_ID == <<>>

\* str(retry_number) of a one-digit attempt number
Digits == <<"1", "2", "3", "4", "5", "6", "7", "8", "9">>
Digit(n) == Digits[n]

\* new_transaction_id = f"RT{retry_number}_{transaction_id}"
NewTransactionId(n, id) == <<"R", "T", Digit(n), "_">> \o id

\* transaction_id LIKE 'RT%_' || $1 : "RT", any characters, exactly one
\* character, then the id.
LikeRetryOf(tid, id) ==
    /\ Len(tid) >= Len(id) + 3
    /\ tid[1] = "R"
    /\ tid[2] = "T"
    /\ SubSeq(tid, Len(tid) - Len(id) + 1, Len(tid)) = id

\* ------------------------------------------------------------------- state
VARIABLES
    transactions,     \* the committed transactions table: id -> row
    pc,               \* position of each call
    caller,           \* the user each call is made on behalf of
    transaction_id,   \* argument of each call
    user_id,          \* user_id each call filters with (None: no filter)
    original_txn,     \* the row each call fetched: <<row>>, or <<>> for none
    retry_count,      \* the count each call read
    pending,          \* writes of each call's open database transaction
    result,           \* what each call returned
    check_pc,             \* position of each run_discrepancy_check call
    check_transaction_id, \* its argument
    check_user_id,        \* the user it lists the transactions of
    transaction,          \* the listed row it found: <<row>>, or <<>>
    check_result,         \* what it returned, or the exception it raised
    messages,             \* the messages table, in the order of insertion
    message_id_unique,    \* whether the table declares message_id a key
    now,                  \* the clock: seconds since the system started
    risk_level,           \* level of the last risk alert on each transaction
    report_pc,            \* position of each create_and_save_report call
    report_args,          \* its arguments and the user of its tool context
    transaction_data,     \* the row it fetched: <<row>>, or <<>>
    retry_transactions,   \* the retry records it listed
    report,               \* the report it built: id, priority, details
    next_message_id,      \* the message id it computed
    report_result,        \* what it returned
    remote_agent_connections, \* the directory: card names in insertion order
    startup,              \* number of addresses _async_init_components has tried
    adk_sessions,         \* session service: session id -> state and turns
    next_uuid,            \* number of uuid4() values drawn so far
    send_pc,              \* position of each send_message_to_remote_agent call
    send_args,            \* its agent_name and the session of its tool context
    send_reply,           \* what the specialist answered, or the exception
    send_result,          \* the text it returned to the host agent
    outbox,               \* the message requests sent to specialists, in order
    req_pc,               \* position of each request to the API server
    req,                  \* its endpoint, session id, message and metadata
    events,               \* the server-sent events it produced, in order
    sessions,             \* api_server.sessions: session id -> its messages
    status_call,          \* each get_transaction_status call and its result
    details_call          \* each fetch_transaction_details call and its result

\* A row of the transactions table as the originating payment flow wrote it,
\* before the system started (the clock starts at 0).
OriginalRow(user, amt, floating, resolved, escalated) ==
    [ user_id |-> user,
      amount |-> amt,
      timestamp_initiated |-> -1,
      transaction_type |-> "transfer",
      recipient_type |-> "bank",
      recipient_account_id |-> <<"acct", user>>,
      recipient_bank_name_or_ewallet |-> <<"bank", user>>,
      device_id |-> <<"dev", user>>,
      location_coordinates |-> <<"loc", user>>,
      status_1 |-> "initiated",
      status_2 |-> "processing",
      status_3 |-> "failed",
      status_4 |-> None,
      is_floating_cash |-> floating,
      floating_duration_minutes |-> IF floating THEN 45 ELSE 0,
      is_fraudulent_attempt |-> FALSE,
      is_cancellation |-> FALSE,
      is_retry_successful |-> resolved,
      manual_escalation_needed |-> escalated ]

\* The row of the INSERT statement: payee, amount, device and location are
\* taken from the fetched original, the rest is synthetic.
RetryRow_copies_flags(orig) ==
    [orig EXCEPT !.is_retry_successful = FALSE, !.manual_escalation_needed = FALSE]
RetryRow(orig) ==
    [ user_id |-> orig.user_id,
      amount |-> orig.amount,
      timestamp_initiated |-> now,
      transaction_type |-> orig.transaction_type,
      recipient_type |-> orig.recipient_type,
      recipient_account_id |-> orig.recipient_account_id,
      recipient_bank_name_or_ewallet |-> orig.recipient_bank_name_or_ewallet,
      device_id |-> orig.device_id,
      location_coordinates |-> orig.location_coordinates,
      status_1 |-> "initiated",
      status_2 |-> "processing",
      status_3 |-> "completed",
      status_4 |-> "settled",
      is_floating_cash |-> FALSE,
      floating_duration_minutes |-> 0,
      is_fraudulent_attempt |-> FALSE,
      is_cancellation |-> FALSE,
      is_retry_successful |-> FALSE,
      manual_escalation_needed |-> FALSE ]

\* SET is_retry_successful = TRUE, manual_escalation_needed = FALSE
UpdateOriginalSet_leaves_unresolved ==
    [is_retry_successful |-> FALSE, manual_escalation_needed |-> FALSE]
UpdateOriginalSet == [is_retry_successful |-> TRUE, manual_escalation_needed |-> FALSE]

\* SET is_retry_successful = TRUE
UpdateRetrySet == [is_retry_successful |-> TRUE]

\* ------------------------------------------------------------------- store
\* A write of an open transaction: an INSERT of a row or an UPDATE of fields.
InsertWrite(id, row) == [op |-> "insert", id |-> id, set |-> row]
UpdateWrite(id, set) == [op |-> "update", id |-> id, set |-> set]

\* The table after one write.  An UPDATE whose WHERE matches no row is a
\* no-op.
ApplyWrite(store, w) ==
    IF w.op = "insert"
    THEN [id \in DOMAIN store \cup {w.id} |-> IF id = w.id THEN w.set ELSE store[id]]
    ELSE [id \in DOMAIN store |->
             IF id = w.id
             THEN [f \in DOMAIN store[id] |->
                      IF f \in DOMAIN w.set THEN w.set[f] ELSE store[id][f]]
             ELSE store[id]]

RECURSIVE ApplyAll(_, _)
ApplyAll(store, ws) ==
    IF ws = <<>> THEN store ELSE ApplyAll(ApplyWrite(store, Head(ws)), Tail(ws))

\* transaction_id identifies a transaction: the store rejects the INSERT of
\* an id that is already there.
UniqueViolation(store, id) == id \in DOMAIN store

\* "async with conn.transaction()": the writes of the block become visible
\* together at its exit, or not at all.
InTransaction_autocommit == FALSE
InTransaction == TRUE

Calls == 1..NumCalls
Checks == 1..NumChecks
Reports == 1..NumReports
Sends == 1..NumSends
Requests == 1..NumRequests
Queries == 1..NumQueries

retryVars == <<pc, caller, transaction_id, user_id, original_txn,
               retry_count, pending, result>>
checkVars == <<check_pc, check_transaction_id, check_user_id, transaction,
               check_result>>
reportVars == <<messages, message_id_unique, now, risk_level, report_pc,
                report_args, transaction_data, retry_transactions, report,
                next_message_id, report_result>>
routerVars == <<remote_agent_connections, startup, adk_sessions, next_uuid,
                send_pc, send_args, send_reply, send_result, outbox,
                req_pc, req, events>>
readVars == <<status_call, details_call>>
vars == <<transactions, retryVars, checkVars, reportVars, routerVars,
          sessions, readVars>>
\* what retry_transaction_tool has no access to
notRetryVars == <<checkVars, reportVars, routerVars, sessions, readVars>>

NoResult ==
    [status |-> None, message |-> None, new_transaction_id |-> EMPTY_ID,
     retry_number |-> 0, retry_count |-> 0, exc |-> <<>>]

\* The dictionaries the tool returns.
Returns(st, msg) == [NoResult EXCEPT !.status = st, !.message = msg]

Required == Returns("error", "Transaction ID is required")
NotFound == Returns("error", "Original transaction not found")
NoDiscrepancy == Returns("no_discrepancy", "no discrepancy to resolve")
AlreadyResolved == Returns("already_resolved", "already been successfully retried")
LimitReached(n) ==
    [Returns("limit_reached", "Retry limit reached") EXCEPT !.retry_count = n]
Success(new_id, n) ==
    [Returns("success", "Transaction retry successful") EXCEPT
        !.new_transaction_id = new_id, !.retry_number = n]
Failed(e) == [Returns("error", "Failed to retry transaction") EXCEPT !.exc = e]

InFlight == {"fetch", "count", "insert", "update_original", "update_retry", "commit"}

NoCheckResult ==
    [status |-> None, is_floating_cash |-> FALSE, confidence |-> 0,
     discrepancy_reasons |-> <<>>, recommendation |-> None, exc |-> <<>>]

\* No call has been made yet.
InitCalls ==
    /\ pc = [c \in Calls |-> "idle"]
    /\ caller = [c \in Calls |-> None]
    /\ transaction_id = [c \in Calls |-> EMPTY_ID]
    /\ user_id = [c \in Calls |-> None]
    /\ original_txn = [c \in Calls |-> <<>>]
    /\ retry_count = [c \in Calls |-> 0]
    /\ pending = [c \in Calls |-> <<>>]
    /\ result = [c \in Calls |-> NoResult]
InitChecks ==
    /\ check_pc = [k \in Checks |-> "idle"]
    /\ check_transaction_id = [k \in Checks |-> EMPTY_ID]
    /\ check_user_id = [k \in Checks |-> None]
    /\ transaction = [k \in Checks |-> <<>>]
    /\ check_result = [k \in Checks |-> NoCheckResult]

NoArgs ==
    [transaction_id |-> EMPTY_ID, failure_details |-> None, is_success |-> FALSE,
     user_id |-> None]
NoReport == [report_id |-> <<>>, priority |-> None, failure_details |-> None]
NoReportResult ==
    [status |-> None, message |-> None, report_id |-> <<>>, message_id |-> 0,
     transaction_id |-> EMPTY_ID, priority |-> None, exc |-> <<>>]

\* No report has been created and no risk alert received.
InitReports(unique) ==
    /\ messages = <<>>
    /\ message_id_unique = unique
    /\ now = 0
    /\ risk_level = [id \in {TXN_A, TXN_BA} |-> None]
    /\ report_pc = [r \in Reports |-> "idle"]
    /\ report_args = [r \in Reports |-> NoArgs]
    /\ transaction_data = [r \in Reports |-> <<>>]
    /\ retry_transactions = [r \in Reports |-> {}]
    /\ report = [r \in Reports |-> NoReport]
    /\ next_message_id = [r \in Reports |-> 0]
    /\ report_result = [r \in Reports |-> NoReportResult]

\* The host agent before startup: no directory entry, no session, no call.
\* No get_transaction_status and no fetch_transaction_details call has
\* been made.
NoStatusCall ==
    [pc |-> "idle", transaction_id |-> EMPTY_ID, found |-> FALSE,
     is_floating_cash |-> FALSE, status |-> None]
NoDetailsCall ==
    [pc |-> "idle", transaction_id |-> EMPTY_ID, user_id |-> None,
     transaction |-> <<>>, status |-> None, retry_count |-> 0,
     is_discrepancy |-> FALSE, needs_retry |-> FALSE]
\* metadata of a request that has none
NoMetadata == [trigger_type |-> "none", transaction_id |-> EMPTY_ID]
\* no send_message_to_remote_agent call and no request has begun
InitSends ==
    /\ send_pc = [s \in Sends |-> "idle"]
    /\ send_args = [s \in Sends |-> [agent_name |-> <<>>, session_id |-> <<>>]]
    /\ send_reply = [s \in Sends |-> [kind |-> "none", text |-> <<>>]]
    /\ send_result = [s \in Sends |-> <<>>]
    /\ outbox = <<>>
    /\ req_pc = [p \in Requests |-> "idle"]
    /\ req = [p \in Requests |->
                [endpoint |-> "none", session_id |-> <<>>, message |-> <<>>,
                 metadata |-> NoMetadata]]
    /\ events = [p \in Requests |-> <<>>]
    /\ sessions = <<>>
    /\ status_call = [q \in Queries |-> NoStatusCall]
    /\ details_call = [q \in Queries |-> NoDetailsCall]
InitRouter ==
    /\ remote_agent_connections = <<>>
    /\ startup = 0
    /\ adk_sessions = <<>>
    /\ next_uuid = 0
    /\ InitSends


Init ==
    \* is_retry_successful is only ever set on a transaction that passed the
    \* is_floating_cash guard
    /\ \E floating \in BOOLEAN, resolved \in BOOLEAN :
          /\ resolved => floating
          /\ transactions =
                (TXN_A :> OriginalRow("user_1", 5000, floating, resolved, TRUE)) @@
                (TXN_BA :> OriginalRow("user_2", 60000, TRUE, FALSE, FALSE))
    /\ InitCalls
    /\ InitChecks
    /\ InitRouter
    /\ InitReports(TRUE)

\* ------------------------------------------------- retry_transaction_tool
\* Entry of retry_transaction_tool: the empty id is rejected, and user_id
\* falls back to the tool context's state when the argument is not given.
EffectiveUserId(user_id_arg, context_user_id) ==
    IF user_id_arg # None THEN user_id_arg ELSE context_user_id

\* The call returns: its locals are gone, the open transaction has ended.
Return(c, r) ==
    /\ pc' = [pc EXCEPT ![c] = "done"]
    /\ result' = [result EXCEPT ![c] = r]
    /\ original_txn' = [original_txn EXCEPT ![c] = <<>>]
    /\ retry_count' = [retry_count EXCEPT ![c] = 0]
    /\ pending' = [pending EXCEPT ![c] = <<>>]

Call(c, tid, who, user_id_arg, context_user_id) ==
    /\ pc[c] = "idle"
    /\ \A d \in Calls : d < c => pc[d] # "idle"
    /\ caller' = [caller EXCEPT ![c] = who]
    /\ transaction_id' = [transaction_id EXCEPT ![c] = tid]
    /\ user_id' = [user_id EXCEPT ![c] = EffectiveUserId(user_id_arg, context_user_id)]
    /\ IF tid = EMPTY_ID
       THEN Return(c, Required)
       ELSE /\ pc' = [pc EXCEPT ![c] = "fetch"]
            /\ UNCHANGED <<result, original_txn, retry_count, pending>>
    /\ UNCHANGED <<transactions, notRetryVars>>

\* conn.fetchrow(fetch_query, transaction_id[, user_id])
Fetchrow_unscoped(store, tid, uid) ==
    IF tid \in DOMAIN store THEN <<store[tid]>> ELSE <<>>
Fetchrow(store, tid, uid) ==
    IF tid \in DOMAIN store /\ (uid = None \/ store[tid].user_id = uid)
    THEN <<store[tid]>>
    ELSE <<>>

\* The guards on the fetched row, in the code's order: the dictionary to
\* return, or NoResult when all of them pass.
FetchGuards_skips_resolved(row) ==
    IF row = <<>> THEN NotFound
    ELSE IF ~row[1].is_floating_cash THEN NoDiscrepancy
    ELSE NoResult
FetchGuards_resolved_first(row) ==
    IF row = <<>> THEN NotFound
    ELSE IF row[1].is_retry_successful THEN AlreadyResolved
    ELSE IF ~row[1].is_floating_cash THEN NoDiscrepancy
    ELSE NoResult
FetchGuards(row) ==
    IF row = <<>> THEN NotFound
    ELSE IF ~row[1].is_floating_cash THEN NoDiscrepancy
    ELSE IF row[1].is_retry_successful THEN AlreadyResolved
    ELSE NoResult

Fetch(c) ==
    /\ pc[c] = "fetch"
    /\ LET row == Fetchrow(transactions, transaction_id[c], user_id[c])
       IN IF FetchGuards(row) = NoResult
          THEN /\ pc' = [pc EXCEPT ![c] = "count"]
               /\ original_txn' = [original_txn EXCEPT ![c] = row]
               /\ UNCHANGED <<result, retry_count, pending>>
          ELSE Return(c, FetchGuards(row))
    /\ UNCHANGED <<transactions, caller, transaction_id, user_id, notRetryVars>>

\* SELECT COUNT(*) FROM transactions WHERE transaction_id LIKE 'RT%_' || $1
RetryCount(store, tid) ==
    Cardinality({id \in DOMAIN store : LikeRetryOf(id, tid)})

\* "if retry_count >= 2"
LimitGuard_off_by_one(n) == n > RetryLimit
LimitGuard(n) == n >= RetryLimit

Count(c) ==
    /\ pc[c] = "count"
    /\ LET n == RetryCount(transactions, transaction_id[c])
       IN IF LimitGuard(n)
          THEN Return(c, LimitReached(n))
          ELSE /\ pc' = [pc EXCEPT ![c] = "insert"]
               /\ retry_count' = [retry_count EXCEPT ![c] = n]
               /\ UNCHANGED <<result, original_txn, pending>>
    /\ UNCHANGED <<transactions, caller, transaction_id, user_id, notRetryVars>>

retry_number(c) == retry_count[c] + 1
new_transaction_id(c) == NewTransactionId(retry_number(c), transaction_id[c])

\* Another open transaction holds an uncommitted write of row id: the
\* statement waits for it to end.
Blocked(c, id) ==
    \E d \in DOMAIN pending \ {c} : \E i \in DOMAIN pending[d] : pending[d][i].id = id

\* A write statement that went through: inside a transaction it stays
\* pending until the block exits, without one it is visible at once.
Execute(c, w, next) ==
    /\ pc' = [pc EXCEPT ![c] = next]
    /\ IF InTransaction
       THEN /\ pending' = [pending EXCEPT ![c] = Append(@, w)]
            /\ UNCHANGED transactions
       ELSE /\ transactions' = ApplyWrite(transactions, w)
            /\ UNCHANGED pending
    /\ UNCHANGED <<caller, transaction_id, user_id, original_txn, retry_count, result,
                   notRetryVars>>

\* An exception inside the block: the open transaction is rolled back and
\* the except clause returns an error.
Raise(c, e) ==
    /\ Return(c, Failed(e))
    /\ UNCHANGED <<transactions, caller, transaction_id, user_id, notRetryVars>>

Insert_on_conflict_do_update(c) ==
    /\ pc[c] = "insert"
    /\ ~Blocked(c, new_transaction_id(c))
    /\ Execute(c, InsertWrite(new_transaction_id(c), RetryRow(original_txn[c][1])),
               "update_original")
Insert(c) ==
    /\ pc[c] = "insert"
    /\ ~Blocked(c, new_transaction_id(c))
    /\ IF UniqueViolation(transactions, new_transaction_id(c))
       THEN Raise(c, <<"UniqueViolationError", pc[c]>>)
       ELSE Execute(c, InsertWrite(new_transaction_id(c), RetryRow(original_txn[c][1])),
                    "update_original")

UpdateOriginal(c) ==
    /\ pc[c] = "update_original"
    /\ ~Blocked(c, transaction_id[c])
    /\ Execute(c, UpdateWrite(transaction_id[c], UpdateOriginalSet), "update_retry")

UpdateRetry(c) ==
    /\ pc[c] = "update_retry"
    /\ Execute(c, UpdateWrite(new_transaction_id(c), UpdateRetrySet), "commit")

\* Leaving the transaction block with the return statement: commit.
Commit(c) ==
    /\ pc[c] = "commit"
    /\ transactions' = ApplyAll(transactions, pending[c])
    /\ Return(c, Success(new_transaction_id(c), retry_number(c)))
    /\ UNCHANGED <<caller, transaction_id, user_id, notRetryVars>>

\* The connection, a statement or the commit fails (asyncpg raises); the
\* exception text names what failed.
Fail(c) ==
    /\ pc[c] \in InFlight
    /\ Raise(c, <<"PostgresError", pc[c]>>)

\* Calls of the owner of TXN_A, on TXN_A, on its first retry record and
\* without an id.
Next ==
    \/ \E c \in Calls, tid \in {TXN_A, NewTransactionId(1, TXN_A), EMPTY_ID},
          user_id_arg \in {None, "user_1"} :
             Call(c, tid, "user_1", user_id_arg, "user_1")
    \/ \E c \in Calls : Fetch(c)
    \/ \E c \in Calls : Count(c)
    \/ \E c \in Calls : Insert(c)
    \/ \E c \in Calls : UpdateOriginal(c)
    \/ \E c \in Calls : UpdateRetry(c)
    \/ \E c \in Calls : Commit(c)
    \/ \E c \in Calls : Fail(c)

Spec == Init /\ [][Next]_vars

\* Calls of any user on any transaction, with the user id given as
\* argument, through the tool context, or not at all.
NextScoped ==
    \/ \E c \in 1..NumScopedCalls, tid \in {TXN_A, TXN_BA}, who \in Users :
          \E user_id_arg \in {None, who}, context_user_id \in {None, who} :
             Call(c, tid, who, user_id_arg, context_user_id)
    \/ \E c \in Calls : Fetch(c)
    \/ \E c \in Calls : Count(c)
    \/ \E c \in Calls : Insert(c)
    \/ \E c \in Calls : UpdateOriginal(c)
    \/ \E c \in Calls : UpdateRetry(c)
    \/ \E c \in Calls : Commit(c)
    \/ \E c \in Calls : Fail(c)

SpecScoped == Init /\ [][NextScoped]_vars

\* Calls of the owner of TXN_A one after the other: a call begins when
\* every call before it has returned.  No one else writes to the store.
NextSequential ==
    \/ \E c \in Calls, tid \in {TXN_A, NewTransactionId(1, TXN_A), EMPTY_ID},
          user_id_arg \in {None, "user_1"} :
             /\ \A d \in Calls : pc[d] \in {"idle", "done"}
             /\ Call(c, tid, "user_1", user_id_arg, "user_1")
    \/ \E c \in Calls : Fetch(c)
    \/ \E c \in Calls : Count(c)
    \/ \E c \in Calls : Insert(c)
    \/ \E c \in Calls : UpdateOriginal(c)
    \/ \E c \in Calls : UpdateRetry(c)
    \/ \E c \in Calls : Commit(c)
    \/ \E c \in Calls : Fail(c)

SpecSequential == Init /\ [][NextSequential]_vars

\* Concurrent calls of the owner on TXN_A while the owner of TXN_BA, whose
\* id ends with the id of TXN_A, retries that transaction.
SuffixCalls == 1..(NumCalls + 1)

InitSuffix ==
    /\ transactions =
          (TXN_A :> OriginalRow("user_1", 5000, TRUE, FALSE, TRUE)) @@
          (TXN_BA :> OriginalRow("user_2", 60000, TRUE, FALSE, FALSE))
    /\ pc = [c \in SuffixCalls |-> "idle"]
    /\ caller = [c \in SuffixCalls |-> None]
    /\ transaction_id = [c \in SuffixCalls |-> EMPTY_ID]
    /\ user_id = [c \in SuffixCalls |-> None]
    /\ original_txn = [c \in SuffixCalls |-> <<>>]
    /\ retry_count = [c \in SuffixCalls |-> 0]
    /\ pending = [c \in SuffixCalls |-> <<>>]
    /\ result = [c \in SuffixCalls |-> NoResult]
    /\ InitChecks
    /\ InitRouter
    /\ InitReports(TRUE)

NextSuffix ==
    \/ \E c \in Calls : Call(c, TXN_A, "user_1", "user_1", "user_1")
    \/ Call(NumCalls + 1, TXN_BA, "user_2", "user_2", "user_2")
    \/ \E c \in SuffixCalls : Fetch(c)
    \/ \E c \in SuffixCalls : Count(c)
    \/ \E c \in SuffixCalls : Insert(c)
    \/ \E c \in SuffixCalls : UpdateOriginal(c)
    \/ \E c \in SuffixCalls : UpdateRetry(c)
    \/ \E c \in SuffixCalls : Commit(c)

SpecSuffix == InitSuffix /\ [][NextSuffix]_vars

\* --------------------------------------------------- run_discrepancy_check
\* query_user_transactions(user_id, limit=100): WHERE user_id = $1 ORDER BY
\* timestamp_initiated DESC LIMIT 100, the rows of the user that fewer than
\* 100 of the user's rows are more recent than.  (Which of several rows of
\* equal time at the cut are listed is left open by the database; the
\* stores of this model have no such rows.)
QueryUserTransactions(store, uid) ==
    {id \in DOMAIN store :
        /\ store[id].user_id = uid
        /\ Cardinality({other \in DOMAIN store :
                           /\ store[other].user_id = uid
                           /\ store[other].timestamp_initiated
                                 > store[id].timestamp_initiated}) < 100}

\* "for txn in transactions: if txn['transaction_id'] == transaction_id"
FindTransaction(store, uid, tid) ==
    IF tid \in QueryUserTransactions(store, uid) THEN <<store[tid]>> ELSE <<>>

\* detect_discrepancies: floating_duration_minutes > _THRESHOLD_MIN
DetectedDiscrepancy(row) == row.floating_duration_minutes > _THRESHOLD_MIN

\* The keywords that "in status" finds in a lower-cased status text.
StatusKeywords(status) ==
    IF status = "failed" THEN {"failed"}
    ELSE IF status = "timeout" THEN {"timeout"}
    ELSE IF status = "processing" THEN {"processing"}
    ELSE IF status = "network timeout" THEN {"network", "timeout"}
    ELSE {}

\* The if / elif chain on the status text: at most one reason.
StatusReason(status) ==
    IF "failed" \in StatusKeywords(status) THEN <<"status indicates failure">>
    ELSE IF "timeout" \in StatusKeywords(status) THEN <<"timeout detected">>
    ELSE IF "processing" \in StatusKeywords(status) THEN <<"stuck in processing">>
    ELSE IF "network" \in StatusKeywords(status) THEN <<"network-related issue">>
    ELSE <<>>

\* transaction.get('status_4', transaction.get('status_1', '')): the listed
\* row always has the key status_4, so its value is taken even when it is
\* NULL, and None has no method lower().
StatusRaises(row) == row.status_4 = None

DiscrepancyReasons(row) ==
    LET reasons ==
          (IF row.floating_duration_minutes > _THRESHOLD_MIN
           THEN <<"floating">> ELSE <<>>)
          \o StatusReason(row.status_4)
          \o (IF row.manual_escalation_needed THEN <<"manual escalation flag">> ELSE <<>>)
          \o (IF row.is_fraudulent_attempt THEN <<"fraudulent attempt">> ELSE <<>>)
          \o (IF row.is_cancellation THEN <<"cancelled">> ELSE <<>>)
    IN IF reasons = <<>> THEN <<"ML model detected anomaly pattern">> ELSE reasons

\* The dictionaries run_discrepancy_check returns.
CheckNotFound == [NoCheckResult EXCEPT !.status = "error"]
CheckCompleted(row) ==
    [NoCheckResult EXCEPT
        !.status = "completed",
        !.is_floating_cash = DetectedDiscrepancy(row),
        !.confidence = IF DetectedDiscrepancy(row) THEN 85 ELSE 15,
        !.discrepancy_reasons =
            IF DetectedDiscrepancy(row) THEN DiscrepancyReasons(row) ELSE <<>>,
        !.recommendation =
            IF DetectedDiscrepancy(row) THEN "escalate_to_reconciler"
            ELSE "no_action_needed"]
\* An exception that leaves run_discrepancy_check.
CheckRaised(e) == [NoCheckResult EXCEPT !.status = "raised", !.exc = e]

CheckReturn(k, r) ==
    /\ check_pc' = [check_pc EXCEPT ![k] = "done"]
    /\ check_result' = [check_result EXCEPT ![k] = r]
    /\ transaction' = [transaction EXCEPT ![k] = <<>>]

\* Entry: the user is the one of the tool context, or the dummy user.
CheckCall(k, tid, context_user_id) ==
    /\ check_pc[k] = "idle"
    /\ check_pc' = [check_pc EXCEPT ![k] = "query"]
    /\ check_transaction_id' = [check_transaction_id EXCEPT ![k] = tid]
    /\ check_user_id' = [check_user_id EXCEPT ![k] =
          IF context_user_id = None THEN DUMMY_USER_ID ELSE context_user_id]
    /\ UNCHANGED <<transactions, retryVars, routerVars, sessions, readVars, reportVars, transaction, check_result>>

\* The listing is read and searched and the verdict is computed.  A
\* discrepant row goes on to the UPDATE, unless its status text is missing.
CheckQuery(k) ==
    /\ check_pc[k] = "query"
    /\ LET found == FindTransaction(transactions, check_user_id[k],
                                    check_transaction_id[k])
       IN IF found = <<>>
          THEN CheckReturn(k, CheckNotFound)
          ELSE IF ~DetectedDiscrepancy(found[1])
          THEN CheckReturn(k, CheckCompleted(found[1]))
          ELSE IF StatusRaises(found[1])
          THEN CheckReturn(k, CheckRaised(<<"AttributeError", "lower">>))
          ELSE /\ check_pc' = [check_pc EXCEPT ![k] = "update"]
               /\ transaction' = [transaction EXCEPT ![k] = found]
               /\ UNCHANGED check_result
    /\ UNCHANGED <<transactions, retryVars, routerVars, sessions, readVars, reportVars, check_transaction_id, check_user_id>>

\* query_user_transactions raises "Failed to query transactions".
CheckQueryFails(k) ==
    /\ check_pc[k] = "query"
    /\ CheckReturn(k, CheckRaised(<<"Exception", "query">>))
    /\ UNCHANGED <<transactions, retryVars, routerVars, sessions, readVars, reportVars, check_transaction_id, check_user_id>>

\* SET is_floating_cash = TRUE, floating_duration_minutes = <as listed>
CheckUpdateSet(row) ==
    [is_floating_cash |-> TRUE,
     floating_duration_minutes |-> row.floating_duration_minutes]

\* UPDATE ... WHERE transaction_id = $3 AND user_id = $4, on a connection of
\* its own and outside any transaction block.
CheckUpdate(k) ==
    /\ check_pc[k] = "update"
    /\ ~Blocked(0, check_transaction_id[k])
    /\ transactions' =
          IF FindTransaction(transactions, check_user_id[k],
                             check_transaction_id[k]) = <<>>
          THEN transactions
          ELSE ApplyWrite(transactions,
                          UpdateWrite(check_transaction_id[k],
                                      CheckUpdateSet(transaction[k][1])))
    /\ CheckReturn(k, CheckCompleted(transaction[k][1]))
    /\ UNCHANGED <<retryVars, routerVars, sessions, readVars, reportVars, check_transaction_id, check_user_id>>

\* The UPDATE fails: the exception is printed and the verdict is returned
\* all the same.
CheckUpdateFails_raises(k) ==
    /\ check_pc[k] = "update"
    /\ CheckReturn(k, CheckRaised(<<"PostgresError", "update">>))
    /\ UNCHANGED <<transactions, retryVars, routerVars, sessions, readVars, reportVars, check_transaction_id, check_user_id>>
CheckUpdateFails(k) ==
    /\ check_pc[k] = "update"
    /\ CheckReturn(k, CheckCompleted(transaction[k][1]))
    /\ UNCHANGED <<transactions, retryVars, routerVars, sessions, readVars, reportVars, check_transaction_id, check_user_id>>

\* The transaction of the classify-then-retry scenario as the payment flow
\* left it: not flagged yet, with the given floating time and last status.
UnflaggedRow(user, amt, minutes, last_status) ==
    [OriginalRow(user, amt, FALSE, FALSE, FALSE) EXCEPT
        !.floating_duration_minutes = minutes, !.status_4 = last_status]

InitClassify ==
    /\ \E minutes \in {5, _THRESHOLD_MIN, _THRESHOLD_MIN + 1, 45},
          last_status \in {None, "failed", "network timeout", "completed"} :
          transactions =
             (TXN_A :> UnflaggedRow("user_1", 5000, minutes, last_status)) @@
             (TXN_BA :> OriginalRow("user_2", 60000, TRUE, FALSE, FALSE))
    /\ InitCalls
    /\ InitChecks
    /\ InitRouter
    /\ InitReports(TRUE)

\* The host agent classifies a transaction for the current user; once the
\* verdicts are in, the reconciler retries TXN_A on the owner's behalf.
NextClassify ==
    \/ \E k \in Checks, tid \in {TXN_A, TXN_BA}, context_user_id \in {None, "user_2"} :
          CheckCall(k, tid, context_user_id)
    \/ \E k \in Checks : CheckQuery(k)
    \/ \E k \in Checks : CheckQueryFails(k)
    \/ \E k \in Checks : CheckUpdate(k)
    \/ \E k \in Checks : CheckUpdateFails(k)
    \/ /\ \A k \in Checks : check_pc[k] = "done"
       /\ Call(1, TXN_A, "user_1", "user_1", "user_1")
    \/ Fetch(1)
    \/ Count(1)
    \/ Insert(1)
    \/ UpdateOriginal(1)
    \/ UpdateRetry(1)
    \/ Commit(1)
    \/ Fail(1)

SpecClassify == InitClassify /\ [][NextClassify]_vars

\* -------------------------------------------------- create_and_save_report
DecimalDigits == <<"0", "1", "2", "3", "4", "5", "6", "7", "8", "9">>
\* a number below 100 as two decimal digits (%H, %M, %S)
TwoDigits(n) == <<DecimalDigits[(n \div 10) + 1], DecimalDigits[(n % 10) + 1]>>

\* datetime.now().strftime("%Y%m%d%H%M%S") t seconds after the start of the
\* system, which is at 09:59:59 on 2025-08-15.
Strftime(t) ==
    LET second_of_day == 9 * 3600 + 59 * 60 + 59 + t
    IN <<"2", "0", "2", "5">> \o <<"0", "8">> \o <<"1", "5">>
       \o TwoDigits(second_of_day \div 3600)
       \o TwoDigits((second_of_day % 3600) \div 60)
       \o TwoDigits(second_of_day % 60)

\* report_prefix = "SUC" if is_success else "ESC"
ReportPrefix(is_success) == IF is_success THEN <<"S", "U", "C">> ELSE <<"E", "S", "C">>

\* report_id = f"{report_prefix}_{timestamp_str}_{transaction_id}"
ReportId(is_success, t, tid) ==
    ReportPrefix(is_success) \o <<"_">> \o Strftime(t) \o <<"_">> \o tid

\* amount = float(transaction_data['amount']) if transaction_data['amount'] else 0
Amount(row) == IF row.amount # 0 THEN row.amount ELSE 0

\* priority = "LOW", then the if / elif chain on amount and retry_count
Priority_inclusive(amount, count) ==
    IF amount >= 50000 THEN "CRITICAL"
    ELSE IF amount >= 10000 THEN "HIGH"
    ELSE IF count >= 2 THEN "MEDIUM"
    ELSE "LOW"
Priority_swapped(amount, count) ==
    IF amount > 50000 THEN "HIGH"
    ELSE IF amount > 10000 THEN "CRITICAL"
    ELSE IF count >= 2 THEN "MEDIUM"
    ELSE "LOW"
Priority(amount, count) ==
    IF amount > 50000 THEN "CRITICAL"
    ELSE IF amount > 10000 THEN "HIGH"
    ELSE IF count >= 2 THEN "MEDIUM"
    ELSE "LOW"

\* SELECT ... WHERE transaction_id LIKE 'RT%_' || $1
RetryTransactions(store, tid) == {id \in DOMAIN store : LikeRetryOf(id, tid)}

\* SELECT COALESCE(MAX(message_id), 0) FROM messages
RECURSIVE MaxMessageId(_)
MaxMessageId(msgs) ==
    IF msgs = <<>> THEN 0
    ELSE LET rest == MaxMessageId(Tail(msgs))
         IN IF Head(msgs).message_id > rest THEN Head(msgs).message_id ELSE rest

\* The row of INSERT INTO messages (message_id, transaction_id, report).
MessageRow(id, tid, rep) == [message_id |-> id, transaction_id |-> tid, report |-> rep]

\* A table that declares message_id its key rejects a second row with the
\* same message_id.
MessageIdViolation(msgs, id) ==
    message_id_unique /\ \E i \in DOMAIN msgs : msgs[i].message_id = id

\* SET manual_escalation_needed = TRUE
EscalationSet == [manual_escalation_needed |-> TRUE]

\* The dictionaries create_and_save_report returns.
ReportReturns(st, msg) == [NoReportResult EXCEPT !.status = st, !.message = msg]
ReportRequired == ReportReturns("error", "Transaction ID is required for report")
ReportNotFound == ReportReturns("error", "Transaction not found")
ReportFailed(e) ==
    [ReportReturns("error", "Failed to create escalation report") EXCEPT !.exc = e]
ReportSuccess(rep, id, tid) ==
    [ReportReturns("success", "Escalation report created successfully") EXCEPT
        !.report_id = rep.report_id, !.message_id = id, !.transaction_id = tid,
        !.priority = rep.priority]

ReportInFlight == {"fetch", "retries", "max", "insert", "update"}

\* The call returns: its locals are gone.  Nothing is rolled back, every
\* statement was committed when it was executed.
ReportReturn(r, res) ==
    /\ report_pc' = [report_pc EXCEPT ![r] = "done"]
    /\ report_result' = [report_result EXCEPT ![r] = res]
    /\ transaction_data' = [transaction_data EXCEPT ![r] = <<>>]
    /\ retry_transactions' = [retry_transactions EXCEPT ![r] = {}]
    /\ report' = [report EXCEPT ![r] = NoReport]
    /\ next_message_id' = [next_message_id EXCEPT ![r] = 0]

\* Entry of create_and_save_report: the empty id is rejected; the user is
\* the one of the tool context, if any.
ReportCall(r, tid, details, is_success, context_user_id) ==
    /\ report_pc[r] = "idle"
    /\ \A q \in Reports : q < r => report_pc[q] # "idle"
    /\ report_args' = [report_args EXCEPT ![r] =
          [transaction_id |-> tid, failure_details |-> details,
           is_success |-> is_success, user_id |-> context_user_id]]
    /\ IF tid = EMPTY_ID
       THEN ReportReturn(r, ReportRequired)
       ELSE /\ report_pc' = [report_pc EXCEPT ![r] = "fetch"]
            /\ UNCHANGED <<report_result, transaction_data, retry_transactions,
                           report, next_message_id>>
    /\ UNCHANGED <<transactions, retryVars, routerVars, sessions, readVars, checkVars, messages, message_id_unique, now>>

\* conn.fetchrow(fetch_query, transaction_id[, user_id])
ReportFetch(r) ==
    /\ report_pc[r] = "fetch"
    /\ LET row == Fetchrow(transactions, report_args[r].transaction_id,
                           report_args[r].user_id)
       IN IF row = <<>>
          THEN ReportReturn(r, ReportNotFound)
          ELSE /\ report_pc' = [report_pc EXCEPT ![r] = "retries"]
               /\ transaction_data' = [transaction_data EXCEPT ![r] = row]
               /\ UNCHANGED <<report_result, retry_transactions, report,
                              next_message_id>>
    /\ UNCHANGED <<transactions, retryVars, routerVars, sessions, readVars, checkVars, messages, message_id_unique,
                   now, risk_level, report_args>>

\* conn.fetch(retry_query, transaction_id); then the report id, the priority
\* and the text of the report are computed.
ReportRetries(r) ==
    /\ report_pc[r] = "retries"
    /\ LET listed == RetryTransactions(transactions, report_args[r].transaction_id)
       IN /\ retry_transactions' = [retry_transactions EXCEPT ![r] = listed]
          /\ report' = [report EXCEPT ![r] =
                [report_id |-> ReportId(report_args[r].is_success, now,
                                        report_args[r].transaction_id),
                 priority |-> Priority(Amount(transaction_data[r][1]),
                                       Cardinality(listed)),
                 failure_details |-> report_args[r].failure_details]]
    /\ report_pc' = [report_pc EXCEPT ![r] = "max"]
    /\ UNCHANGED <<transactions, retryVars, routerVars, sessions, readVars, checkVars, messages, message_id_unique,
                   now, risk_level, report_args, transaction_data,
                   next_message_id, report_result>>

\* max_id_result = await conn.fetchrow(max_id_query); next = max_id + 1
ReportMax(r) ==
    /\ report_pc[r] = "max"
    /\ next_message_id' = [next_message_id EXCEPT ![r] = MaxMessageId(messages) + 1]
    /\ report_pc' = [report_pc EXCEPT ![r] = "insert"]
    /\ UNCHANGED <<transactions, retryVars, routerVars, sessions, readVars, checkVars, messages, message_id_unique,
                   now, risk_level, report_args, transaction_data,
                   retry_transactions, report, report_result>>

\* An exception: the connection is closed and an error is returned.
ReportRaise(r, e) ==
    /\ ReportReturn(r, ReportFailed(e))
    /\ UNCHANGED <<transactions, retryVars, routerVars, sessions, readVars, checkVars, messages, message_id_unique,
                   now, risk_level, report_args>>

\* INSERT INTO messages (message_id, transaction_id, report)
ReportInsert(r) ==
    /\ report_pc[r] = "insert"
    /\ IF MessageIdViolation(messages, next_message_id[r])
       THEN ReportRaise(r, <<"UniqueViolationError", "insert">>)
       ELSE /\ messages' = Append(messages,
                  MessageRow(next_message_id[r], report_args[r].transaction_id,
                             report[r]))
            /\ report_pc' = [report_pc EXCEPT ![r] = "update"]
            /\ UNCHANGED <<transactions, retryVars, routerVars, sessions, readVars, checkVars, message_id_unique,
                           now, risk_level, report_args, transaction_data,
                           retry_transactions, report, next_message_id,
                           report_result>>

\* UPDATE transactions SET manual_escalation_needed = TRUE
\* WHERE transaction_id = $1; then the success dictionary is returned.
ReportUpdate(r) ==
    /\ report_pc[r] = "update"
    /\ ~Blocked(0, report_args[r].transaction_id)
    /\ transactions' =
          ApplyWrite(transactions,
                     UpdateWrite(report_args[r].transaction_id, EscalationSet))
    /\ ReportReturn(r, ReportSuccess(report[r], next_message_id[r],
                                     report_args[r].transaction_id))
    /\ UNCHANGED <<retryVars, routerVars, sessions, readVars, checkVars, messages, message_id_unique, now,
                   risk_level, report_args>>

\* The connection or a statement fails (asyncpg raises).
ReportFail(r) ==
    /\ report_pc[r] \in ReportInFlight
    /\ ReportRaise(r, <<"PostgresError", report_pc[r]>>)

\* The reconciler agent hands the outcome of a retry request to the
\* escalator agent ("ALWAYS call the escalator_agent"), which calls the tool.
OutcomeDetails(is_success) == IF is_success THEN "retry successful" ELSE "retry failed"

Escalate(r, tid, is_success, context_user_id) ==
    /\ ReportCall(r, tid, OutcomeDetails(is_success), is_success, context_user_id)
    /\ UNCHANGED risk_level

RiskLevels == {"LOW", "MEDIUM", "HIGH"}
RiskDetails(level) == IF level = "HIGH" THEN "HIGH risk alert" ELSE "MEDIUM risk alert"

\* A risk detection alert reaches the reconciler agent.  A LOW alert is
\* acknowledged and ignored; a MEDIUM or HIGH alert is passed to the
\* escalator agent as a risk-triggered escalation with its level.
RiskAlert_escalates_low(r, tid, level, context_user_id) ==
    /\ risk_level' = [risk_level EXCEPT ![tid] = level]
    /\ ReportCall(r, tid, RiskDetails(level), FALSE, context_user_id)
RiskAlert(r, tid, level, context_user_id) ==
    /\ risk_level' = [risk_level EXCEPT ![tid] = level]
    /\ IF level = "LOW"
       THEN UNCHANGED <<transactions, retryVars, routerVars, sessions, readVars, checkVars, messages,
                        message_id_unique, now, report_pc, report_args,
                        transaction_data, retry_transactions, report,
                        next_message_id, report_result>>
       ELSE ReportCall(r, tid, RiskDetails(level), FALSE, context_user_id)

\* Time passes.
Tick ==
    /\ now < MaxNow
    /\ now' = now + 1
    /\ UNCHANGED <<transactions, retryVars, routerVars, sessions, readVars, checkVars, messages, message_id_unique,
                   risk_level, report_pc, report_args, transaction_data,
                   retry_transactions, report, next_message_id, report_result>>

TXN_Z == <<"Z">>

\* TXN_A has not been escalated yet; the messages table may or may not
\* declare message_id its key (the schema is not part of the program).
InitReport ==
    /\ transactions =
          (TXN_A :> OriginalRow("user_1", 5000, TRUE, FALSE, FALSE)) @@
          (TXN_BA :> OriginalRow("user_2", 60000, TRUE, FALSE, FALSE))
    /\ InitCalls
    /\ InitChecks
    /\ InitRouter
    /\ \E unique \in BOOLEAN : InitReports(unique)

\* The escalator reports the outcome of retry requests of user_1: on
\* TXN_A, on the transaction of another user, on an id that does not exist
\* and without an id.
NextReport ==
    \/ \E r \in Reports, tid \in {TXN_A, TXN_BA, TXN_Z, EMPTY_ID},
          is_success \in BOOLEAN :
             Escalate(r, tid, is_success, "user_1")
    \/ \E r \in Reports : ReportFetch(r)
    \/ \E r \in Reports : ReportRetries(r)
    \/ \E r \in Reports : ReportMax(r)
    \/ \E r \in Reports : ReportInsert(r)
    \/ \E r \in Reports : ReportUpdate(r)
    \/ \E r \in Reports : ReportFail(r)
    \/ Tick

SpecReport == InitReport /\ [][NextReport]_vars

\* Amounts around the two thresholds of the priority rule.
Amounts == {0, 5000, 10000, 10001, 50000, 50001}

\* The record of attempt n of a transaction as a successful retry left it.
SucceededRetryRow(orig) == [RetryRow(orig) EXCEPT !.is_retry_successful = TRUE]

\* TXN_A and TXN_BA with any amounts; TXN_BA has been retried j times
\* (twice by two racing calls).
InitPriority ==
    /\ InitReports(TRUE)
    /\ \E amount_a \in Amounts, amount_ba \in Amounts, j \in 0..RetryLimit :
          LET ba == OriginalRow("user_2", amount_ba, TRUE, j > 0, FALSE)
          IN transactions =
                [id \in {TXN_A, TXN_BA} \cup {NewTransactionId(n, TXN_BA) : n \in 1..j} |->
                    IF id = TXN_A THEN OriginalRow("user_1", amount_a, TRUE, FALSE, FALSE)
                    ELSE IF id = TXN_BA THEN ba
                    ELSE SucceededRetryRow(ba)]
    /\ InitCalls
    /\ InitChecks
    /\ InitRouter

\* Escalation reports on TXN_A and TXN_BA.
NextPriority ==
    \/ \E r \in Reports, tid \in {TXN_A, TXN_BA} : Escalate(r, tid, FALSE, None)
    \/ \E r \in Reports : ReportFetch(r)
    \/ \E r \in Reports : ReportRetries(r)
    \/ \E r \in Reports : ReportMax(r)
    \/ \E r \in Reports : ReportInsert(r)
    \/ \E r \in Reports : ReportUpdate(r)

SpecPriority == InitPriority /\ [][NextPriority]_vars

\* Risk alerts on TXN_A reach the reconciler agent while a retry request
\* for TXN_A is served.
InitRisk ==
    /\ transactions =
          (TXN_A :> OriginalRow("user_1", 5000, TRUE, FALSE, FALSE)) @@
          (TXN_BA :> OriginalRow("user_2", 60000, TRUE, FALSE, FALSE))
    /\ InitCalls
    /\ InitChecks
    /\ InitRouter
    /\ InitReports(TRUE)

NextRisk ==
    \/ \E level \in RiskLevels, context_user_id \in {None, "user_1"} :
          RiskAlert(1, TXN_A, level, context_user_id)
    \/ ReportFetch(1)
    \/ ReportRetries(1)
    \/ ReportMax(1)
    \/ ReportInsert(1)
    \/ ReportUpdate(1)
    \/ Call(1, TXN_A, "user_1", "user_1", "user_1")
    \/ Fetch(1)
    \/ Count(1)
    \/ Insert(1)
    \/ UpdateOriginal(1)
    \/ UpdateRetry(1)
    \/ Commit(1)

SpecRisk == InitRisk /\ [][NextRisk]_vars

\* ------------------------------------------- send_message_to_remote_agent
\* Names are sequences of words; str.lower() maps every word to lower case.
Lower(word) ==
    IF word = "Reconciler" THEN "reconciler"
    ELSE IF word = "Agent" THEN "agent"
    ELSE IF word = "Pro" THEN "pro"
    ELSE IF word = "Escalator" THEN "escalator"
    ELSE word
LowerName(name) == [i \in 1..Len(name) |-> Lower(name[i])]

\* "sub in text" on strings
In(sub, text) ==
    \E i \in 0..(Len(text) - Len(sub)) : SubSeq(text, i + 1, i + Len(sub)) = sub

\* The names specialists declare in their agent cards.
RECONCILER_AGENT == <<"Reconciler", "Agent">>
ESCALATOR_AGENT == <<"Escalator", "Agent">>

\* The addresses HostAgent.create is given.
remote_agent_addresses == <<"http://localhost:8081", "http://localhost:8082">>

\* self.remote_agent_connections[card.name] = remote_connection: a new key
\* goes to the end, an existing key keeps its place.
Register(directory, name) ==
    IF \E i \in 1..Len(directory) : directory[i] = name
    THEN directory
    ELSE Append(directory, name)

\* _async_init_components tries the next address: the specialist answers
\* with its card and is registered.
Connect(card_name) ==
    /\ startup < Len(remote_agent_addresses)
    /\ startup' = startup + 1
    /\ remote_agent_connections' = Register(remote_agent_connections, card_name)
    /\ UNCHANGED <<transactions, retryVars, checkVars, reportVars, readVars, sessions, adk_sessions,
                   next_uuid, send_pc, send_args, send_reply, send_result,
                   outbox, req_pc, req, events>>

\* The specialist is unreachable (ConnectError or any other exception):
\* the exception is printed and the loop goes on.
ConnectFails ==
    /\ startup < Len(remote_agent_addresses)
    /\ startup' = startup + 1
    /\ UNCHANGED <<transactions, retryVars, checkVars, reportVars, readVars, sessions,
                   remote_agent_connections, adk_sessions,
                   next_uuid, send_pc, send_args, send_reply, send_result,
                   outbox, req_pc, req, events>>

Started == startup = Len(remote_agent_addresses)

\* the condition of the loop over the directory keys
Matches(agent_name, registered_name) ==
    \/ In(LowerName(agent_name), LowerName(registered_name))
    \/ In(LowerName(registered_name), LowerName(agent_name))

\* The first key of the directory that matches: <<key>>, or <<>> for none.
MatchedAgent(directory, agent_name) ==
    LET hits == {i \in 1..Len(directory) : Matches(agent_name, directory[i])}
    IN IF hits = {} THEN <<>>
       ELSE <<directory[CHOOSE i \in hits : \A j \in hits : i <= j]>>

\* str(uuid.uuid4()): the n-th value drawn
Uuid4(n) == <<"uuid", n>>

\* The state of a session: a key that is absent reads <<>>.
SessionState(user, metadata, task_id, context_id) ==
    [user_id |-> user, metadata |-> metadata,
     task_id |-> task_id, context_id |-> context_id]

\* state.get(key, default)
Get(value, default) == IF value = <<>> THEN default ELSE value

\* The messages send_message_to_remote_agent returns.
SoftFailure == <<"I've logged this issue for resolution. Our team will review it shortly.">>
LoggedForResolution == <<"The issue has been logged for resolution.">>
Escalated == <<"The transaction requires further review and has been escalated to our operations team.">>
MultipleAttempts == <<"Multiple retry attempts were made but the issue persists. The transaction has been flagged for manual review.">>
NoDiscrepancyFound == <<"After checking, no discrepancy was found with this transaction.">>
Submitted == <<"I've submitted the transaction for resolution. Our system is working on it.">>

\* The payload of the message request.
Payload(session_id, to, message_id, task_id, context_id) ==
    [session_id |-> session_id, to |-> to, messageId |-> message_id,
     taskId |-> task_id, contextId |-> context_id]

\* Entry up to "await client.send_message": the directory is searched, the
\* ids are taken from the session state or drawn, the request is sent.
SendCall_no_guard(s, session_id, agent_name) ==
    /\ send_pc[s] = "idle"
    /\ Started
    /\ session_id \in DOMAIN adk_sessions
    /\ send_args' = [send_args EXCEPT ![s] =
          [agent_name |-> agent_name, session_id |-> session_id]]
    /\ LET matched_agent == MatchedAgent(remote_agent_connections, agent_name)
           state == adk_sessions[session_id].state
       IN IF matched_agent = <<>>
          THEN /\ send_pc' = [send_pc EXCEPT ![s] = "done"]
               /\ send_result' = [send_result EXCEPT ![s] = <<"raised", "KeyError">>]
               /\ UNCHANGED <<outbox, next_uuid>>
          ELSE /\ send_pc' = [send_pc EXCEPT ![s] = "awaiting"]
               /\ outbox' = Append(outbox,
                     Payload(session_id, matched_agent[1], Uuid4(next_uuid + 3),
                             Get(state.task_id, Uuid4(next_uuid + 1)),
                             Get(state.context_id, Uuid4(next_uuid + 2))))
               /\ next_uuid' = next_uuid + 3
               /\ UNCHANGED send_result
    /\ UNCHANGED <<transactions, retryVars, checkVars, reportVars, readVars, sessions,
                   remote_agent_connections, startup, adk_sessions, send_reply,
                   req_pc, req, events>>
SendCall(s, session_id, agent_name) ==
    /\ send_pc[s] = "idle"
    /\ Started
    /\ session_id \in DOMAIN adk_sessions
    /\ send_args' = [send_args EXCEPT ![s] =
          [agent_name |-> agent_name, session_id |-> session_id]]
    /\ LET matched_agent == MatchedAgent(remote_agent_connections, agent_name)
           state == adk_sessions[session_id].state
       IN IF matched_agent = <<>>
          THEN /\ send_pc' = [send_pc EXCEPT ![s] = "done"]
               /\ send_result' = [send_result EXCEPT ![s] = SoftFailure]
               /\ UNCHANGED <<outbox, next_uuid>>
          ELSE /\ send_pc' = [send_pc EXCEPT ![s] = "awaiting"]
               /\ outbox' = Append(outbox,
                     Payload(session_id, matched_agent[1], Uuid4(next_uuid + 3),
                             Get(state.task_id, Uuid4(next_uuid + 1)),
                             Get(state.context_id, Uuid4(next_uuid + 2))))
               /\ next_uuid' = next_uuid + 3
               /\ UNCHANGED send_result
    /\ UNCHANGED <<transactions, retryVars, checkVars, reportVars, readVars, sessions,
                   remote_agent_connections, startup, adk_sessions, send_reply,
                   req_pc, req, events>>

\* The replies of a specialist.  A task carries the text of the parts of
\* its artifacts, in order; a message result has no artifacts; an error
\* response has no result.
TaskReply(text) == [kind |-> "task", text |-> text]
\* client.send_message raised e
TransportFailure(e) == [kind |-> "exception", text |-> <<e>>]

\* What the tests of lines 305-323 find in one fragment of a reply text:
\* the lower-case keywords "in response_text.lower()", and "RT" for the
\* case-sensitive "RT" in response_text.
Keywords(fragment) ==
    IF fragment = "Transaction successfully retried as " THEN {"success"}
    ELSE IF fragment = "RT1_A" THEN {"RT"}
    ELSE IF fragment = "RT2_A" THEN {"RT"}
    ELSE IF fragment = "Retry limit reached. Existing attempts: " THEN {"limit", "reached"}
    ELSE IF fragment = "Transaction has been escalated. Report " THEN {"escalated"}
    ELSE IF fragment = "no discrepancy found" THEN {"no", "discrepancy"}
    ELSE {}
KeywordsOf(text) == UNION {Keywords(text[i]) : i \in 1..Len(text)}

\* re.search(r'(RT\d+[A-Z0-9_-]*)', response_text): the first match
RtMatch(text) ==
    LET hits == {i \in 1..Len(text) : text[i] \in {"RT1_A", "RT2_A"}}
    IN IF hits = {} THEN <<>>
       ELSE <<text[CHOOSE i \in hits : \A j \in hits : i <= j]>>
\* re.search(r'ESC_\d+[A-Z0-9_-]*', response_text)
ReportMatch(text) ==
    LET hits == {i \in 1..Len(text) : text[i] = "ESC_20250815095959_A"}
    IN IF hits = {} THEN <<>> ELSE <<"ESC_20250815095959_A">>

\* response_text.strip() if response_text else the logged message
RawText(text) == IF text = <<>> THEN LoggedForResolution ELSE text

\* Lines 304-329: what the text of a task reply is turned into.  A text
\* with "success" or "RT" but no retry id leaves the if without a return
\* and is handed on as it is.
Interpret(matched_agent, text) ==
    IF In(<<"reconciler">>, LowerName(matched_agent)) /\ text # <<>>
    THEN IF "success" \in KeywordsOf(text) \/ "RT" \in KeywordsOf(text)
         THEN IF RtMatch(text) # <<>>
              THEN <<"Good news! The transaction has been successfully retried. New transaction ID: ",
                     RtMatch(text)[1]>>
              ELSE RawText(text)
         ELSE IF "escalated" \in KeywordsOf(text)
         THEN IF ReportMatch(text) # <<>>
              THEN <<"The transaction requires further review and has been escalated. Report ID: ",
                     ReportMatch(text)[1]>>
              ELSE Escalated
         ELSE IF "limit" \in KeywordsOf(text) /\ "reached" \in KeywordsOf(text)
         THEN MultipleAttempts
         ELSE IF "no" \in KeywordsOf(text) /\ "discrepancy" \in KeywordsOf(text)
         THEN NoDiscrepancyFound
         ELSE Submitted
    ELSE RawText(text)

\* Lines 268-329: the value returned for a reply.
Returned_value(agent_name, matched_agent, reply) ==
    IF reply.kind = "exception"
    THEN <<"Error communicating with ">> \o agent_name \o <<": ", reply.text[1]>>
    ELSE IF reply.kind = "error" THEN LoggedForResolution
    ELSE Interpret(matched_agent, reply.text)

\* The reply arrives, or client.send_message raises: the call returns.
SendReply(s, reply) ==
    /\ send_pc[s] = "awaiting"
    /\ send_pc' = [send_pc EXCEPT ![s] = "done"]
    /\ send_reply' = [send_reply EXCEPT ![s] = reply]
    /\ send_result' = [send_result EXCEPT ![s] =
          Returned_value(send_args[s].agent_name,
             MatchedAgent(remote_agent_connections, send_args[s].agent_name)[1],
             reply)]
    /\ UNCHANGED <<transactions, retryVars, checkVars, reportVars, readVars, sessions,
                   remote_agent_connections, startup, adk_sessions, next_uuid,
                   send_args, outbox, req_pc, req, events>>

\* DirectReconcilerClient: the context id is drawn once, when the client is
\* constructed; send_message draws a task id and a message id and posts.
DirectSend ==
    /\ Cardinality({i \in 1..Len(outbox) : outbox[i].session_id = <<"direct">>})
          < NumSends
    /\ outbox' = Append(outbox,
          Payload(<<"direct">>, RECONCILER_AGENT, Uuid4(next_uuid + 2),
                  Uuid4(next_uuid + 1), Uuid4(0)))
    /\ next_uuid' = next_uuid + 2
    /\ UNCHANGED <<transactions, retryVars, checkVars, reportVars, readVars, sessions,
                   remote_agent_connections, startup, adk_sessions,
                   send_pc, send_args, send_reply, send_result,
                   req_pc, req, events>>

\* The acknowledgment of SimpleRequestHandler.
Acknowledgment == <<"Transaction retry initiated. Report generation in progress.">>

\* Sessions that exist when the sends are made: the state holds the user
\* and, possibly, a task id and a context id.
S1 == <<"s1">>
NewSession(state) == [state |-> state, turns |-> <<>>]

InitRoute ==
    /\ transactions = (TXN_A :> OriginalRow("user_1", 5000, TRUE, FALSE, FALSE))
    /\ InitCalls
    /\ InitChecks
    /\ InitReports(TRUE)
    /\ remote_agent_connections = <<>>
    /\ startup = 0
    /\ \E task_id \in {<<>>, <<"stored", 1>>}, context_id \in {<<>>, <<"stored", 2>>} :
          adk_sessions =
             (S1 :> NewSession(SessionState(DUMMY_USER_ID, NoMetadata, task_id, context_id))) @@
             (<<"s2">> :> NewSession(SessionState(DUMMY_USER_ID, NoMetadata, <<>>, <<>>)))
    /\ next_uuid = 0
    /\ InitSends

\* Startup, then the sends of the host agent one after the other.
NextRoute ==
    \/ \E card_name \in {RECONCILER_AGENT, <<"Reconciler", "Agent", "Pro">>,
                         ESCALATOR_AGENT} :
          Connect(card_name)
    \/ ConnectFails
    \/ \E s \in Sends, session_id \in {S1, <<"s2">>},
          agent_name \in {RECONCILER_AGENT, <<"reconciler">>, <<"Agent">>,
                          <<"Fraud", "Desk">>} :
          /\ s = 1 \/ send_pc[IF s = 1 THEN 1 ELSE s - 1] = "done"
          /\ SendCall(s, session_id, agent_name)
    \/ \E s \in Sends, reply \in {TaskReply(Acknowledgment),
                                  TransportFailure("All connection attempts failed")} :
          SendReply(s, reply)

SpecRoute == InitRoute /\ [][NextRoute]_vars

\* What specialists answer: the acknowledgment and the crash text of the
\* reconciler, the outcomes its agent reports, an empty task, a message
\* result, an error response, and a failure of the transport.
Replies ==
    {TaskReply(Acknowledgment),
     TaskReply(<<"ERROR: Reconciler Agent crashed: ", "KeyError: 'runner'">>),
     TaskReply(<<"Transaction successfully retried as ", "RT1_A">>),
     TaskReply(<<"Retry limit reached. Existing attempts: ", "RT1_A", "RT2_A">>),
     TaskReply(<<"Transaction has been escalated. Report ", "ESC_20250815095959_A">>),
     TaskReply(<<"no discrepancy found">>),
     TaskReply(<<>>),
     [kind |-> "message", text |-> <<>>],
     [kind |-> "error", text |-> <<"Internal error: task not found">>],
     TransportFailure("All connection attempts failed")}

\* Startup found the reconciler and an escalator; the session state holds
\* neither a task id nor a context id.
InitReply ==
    /\ transactions = (TXN_A :> OriginalRow("user_1", 5000, TRUE, FALSE, FALSE))
    /\ InitCalls
    /\ InitChecks
    /\ InitReports(TRUE)
    /\ remote_agent_connections = <<RECONCILER_AGENT, ESCALATOR_AGENT>>
    /\ startup = Len(remote_agent_addresses)
    /\ adk_sessions =
          (S1 :> NewSession(SessionState(DUMMY_USER_ID, NoMetadata, <<>>, <<>>)))
    /\ next_uuid = 0
    /\ InitSends

\* The sends of one session, one after the other, with every kind of
\* reply, and the sends of a direct client between them.
NextReply ==
    \/ \E s \in Sends, agent_name \in {RECONCILER_AGENT, ESCALATOR_AGENT} :
          /\ s = 1 \/ send_pc[IF s = 1 THEN 1 ELSE s - 1] = "done"
          /\ SendCall(s, S1, agent_name)
    \/ \E s \in Sends, reply \in Replies : SendReply(s, reply)
    \/ /\ \A s \in Sends : send_pc[s] # "awaiting"
       /\ DirectSend

SpecReply == InitReply /\ [][NextReply]_vars

\* ------------------------------------------------- api_server and stream
\* The server-sent events of generate() before the agent is called: two
\* more status events for a message that any of the words 'transaction',
\* 'payment', 'transfer', ... occurs in.
InitialEvents(message) ==
    IF message = <<"my transfer failed">>
    THEN <<"status", "status", "status">>
    ELSE <<"status">>

\* POST /chat/stream: generate() runs up to the call of host_agent.stream.
ChatStream(p, session_id, message) ==
    /\ req_pc[p] = "idle"
    /\ Started
    /\ req_pc' = [req_pc EXCEPT ![p] = "stream"]
    /\ req' = [req EXCEPT ![p] =
          [endpoint |-> "/chat/stream", session_id |-> session_id,
           message |-> message, metadata |-> NoMetadata]]
    /\ events' = [events EXCEPT ![p] = InitialEvents(message)]
    /\ UNCHANGED <<transactions, retryVars, checkVars, reportVars, readVars, sessions,
                   remote_agent_connections, startup, adk_sessions, next_uuid,
                   send_pc, send_args, send_reply, send_result, outbox>>

\* An entry of sessions[session_id]["messages"]; request is the request
\* that appended it, which its timestamp tells.
ChatMessage(role, content, p) == [role |-> role, content |-> content, request |-> p]

\* POST /chat up to the call of host_agent.stream: the session entry is
\* created if there is none and the user message is appended to it.
Chat(p, session_id, message) ==
    /\ req_pc[p] = "idle"
    /\ Started
    /\ req_pc' = [req_pc EXCEPT ![p] = "stream"]
    /\ req' = [req EXCEPT ![p] =
          [endpoint |-> "/chat", session_id |-> session_id,
           message |-> message, metadata |-> NoMetadata]]
    /\ sessions' =
          (session_id :>
              Append(IF session_id \in DOMAIN sessions
                     THEN sessions[session_id] ELSE <<>>,
                     ChatMessage("user", message, p)))
          @@ sessions
    /\ UNCHANGED <<transactions, retryVars, checkVars, reportVars, readVars,
                   remote_agent_connections, startup, adk_sessions, next_uuid,
                   send_pc, send_args, send_reply, send_result, outbox, events>>

\* POST /trigger/discrepancy: trigger_discrepancy_alert draws the session
\* id, the endpoint builds the metadata and calls host_agent.stream with an
\* empty query.
TriggerDiscrepancy(p, tid) ==
    /\ req_pc[p] = "idle"
    /\ Started
    /\ req_pc' = [req_pc EXCEPT ![p] = "stream"]
    /\ req' = [req EXCEPT ![p] =
          [endpoint |-> "/trigger/discrepancy",
           session_id |-> <<"system_triggered", next_uuid + 1>>,
           message |-> <<>>,
           metadata |-> [trigger_type |-> "discrepancy_detected",
                         transaction_id |-> tid]]]
    /\ next_uuid' = next_uuid + 1
    /\ UNCHANGED <<transactions, retryVars, checkVars, reportVars, readVars, sessions,
                   remote_agent_connections, startup, adk_sessions,
                   send_pc, send_args, send_reply, send_result, outbox, events>>

\* The text of the first turn: the alert that names the transaction when
\* the metadata carry the trigger and a transaction id, else the query.
Query(query, metadata) ==
    IF /\ metadata # NoMetadata
       /\ metadata.trigger_type = "discrepancy_detected"
       /\ metadata.transaction_id # EMPTY_ID
    THEN [role |-> "user", kind |-> "SYSTEM ALERT: discrepancy detected",
          transaction_id |-> metadata.transaction_id, text |-> <<>>]
    ELSE [role |-> "user", kind |-> "query", transaction_id |-> EMPTY_ID,
          text |-> query]

\* HostAgent.stream up to the first event: the query is chosen, the
\* session is looked up and created if there is none, and the runner
\* takes the message in as the next turn of the session.
Stream(p) ==
    /\ req_pc[p] = "stream"
    /\ req_pc' = [req_pc EXCEPT ![p] = "running"]
    /\ LET session_id == req[p].session_id
           session == IF session_id \in DOMAIN adk_sessions
                      THEN adk_sessions[session_id]
                      ELSE NewSession(SessionState(DUMMY_USER_ID, req[p].metadata,
                                                   <<>>, <<>>))
       IN adk_sessions' =
             (session_id :>
                 [session EXCEPT !.turns =
                     Append(@, Query(req[p].message, req[p].metadata))])
             @@ adk_sessions
    /\ UNCHANGED <<transactions, retryVars, checkVars, reportVars, readVars, sessions,
                   remote_agent_connections, startup, next_uuid,
                   send_pc, send_args, send_reply, send_result, outbox,
                   req, events>>

\* the sends of the session of request p that wait for their reply
Awaited(p) ==
    {s \in Sends : /\ send_pc[s] = "awaiting"
                   /\ send_args[s].session_id = req[p].session_id}

\* The runner yields an event that is not the final response: the agent
\* reports "SPARK is analyzing your transaction...", which generate()
\* turns into one status event.
AgentUpdate(p) ==
    /\ req_pc[p] = "running"
    /\ Len(events[p]) < Len(InitialEvents(req[p].message)) + MaxUpdates
    /\ req[p].endpoint = "/chat/stream"
    /\ events' = [events EXCEPT ![p] = Append(@, "status")]
    /\ UNCHANGED <<transactions, retryVars, checkVars, reportVars, readVars, sessions,
                   remote_agent_connections, startup, adk_sessions, next_uuid,
                   send_pc, send_args, send_reply, send_result, outbox,
                   req_pc, req>>

\* The agent calls its tool send_message_to_remote_agent.
AgentSend(p, s, agent_name) ==
    /\ req_pc[p] = "running"
    /\ Awaited(p) = {}
    /\ SendCall(s, req[p].session_id, agent_name)

\* The final response: the runner records it in the session; generate()
\* sends the complete event and the [DONE] line and stops; chat() appends
\* the response to the messages of the session and answers.
AgentFinal(p) ==
    /\ req_pc[p] = "running"
    /\ Awaited(p) = {}
    /\ req_pc' = [req_pc EXCEPT ![p] = "done"]
    /\ adk_sessions' = [adk_sessions EXCEPT ![req[p].session_id].turns =
                           Append(@, [role |-> "assistant", kind |-> "response",
                                      transaction_id |-> EMPTY_ID,
                                      text |-> <<>>])]
    /\ events' = [events EXCEPT ![p] =
          IF req[p].endpoint = "/chat/stream"
          THEN @ \o <<"complete", "[DONE]">>
          ELSE @]
    /\ sessions' =
          IF req[p].endpoint = "/chat"
          THEN [sessions EXCEPT ![req[p].session_id] =
                   Append(@, ChatMessage("assistant", <<"response">>, p))]
          ELSE sessions
    /\ UNCHANGED <<transactions, retryVars, checkVars, reportVars, readVars,
                   remote_agent_connections, startup, next_uuid,
                   send_pc, send_args, send_reply, send_result, outbox, req>>

\* The runner raises: generate() sends an error event; the trigger
\* endpoint and chat() answer with status 500.
AgentRaises(p) ==
    /\ req_pc[p] = "running"
    /\ Awaited(p) = {}
    /\ req_pc' = [req_pc EXCEPT ![p] = "done"]
    /\ events' = [events EXCEPT ![p] =
          IF req[p].endpoint = "/chat/stream" THEN Append(@, "error") ELSE @]
    /\ UNCHANGED <<transactions, retryVars, checkVars, reportVars, readVars, sessions,
                   remote_agent_connections, startup, adk_sessions, next_uuid,
                   send_pc, send_args, send_reply, send_result, outbox, req>>

\* The runner ends without a final response: the loop over the events
\* ends and so does generate(); chat() appends the empty response.
AgentEnds(p) ==
    /\ req_pc[p] = "running"
    /\ Awaited(p) = {}
    /\ req_pc' = [req_pc EXCEPT ![p] = "done"]
    /\ sessions' =
          IF req[p].endpoint = "/chat"
          THEN [sessions EXCEPT ![req[p].session_id] =
                   Append(@, ChatMessage("assistant", <<>>, p))]
          ELSE sessions
    /\ UNCHANGED <<transactions, retryVars, checkVars, reportVars, readVars,
                   remote_agent_connections, startup, adk_sessions, next_uuid,
                   send_pc, send_args, send_reply, send_result, outbox, req,
                   events>>

\* The API server after a startup that found the reconciler.
InitStream ==
    /\ transactions = (TXN_A :> OriginalRow("user_1", 5000, TRUE, FALSE, FALSE))
    /\ InitCalls
    /\ InitChecks
    /\ InitReports(TRUE)
    /\ remote_agent_connections = <<RECONCILER_AGENT>>
    /\ startup = Len(remote_agent_addresses)
    /\ adk_sessions = <<>>
    /\ next_uuid = 0
    /\ InitSends

\* Requests to /chat/stream, each handled by a task of its own; request p
\* arrives before request p + 1.
Arrives(p) == p = 1 \/ req_pc[IF p = 1 THEN 1 ELSE p - 1] # "idle"
NextStream ==
    \/ \E p \in Requests, message \in {<<"my transfer failed">>, <<"hello">>} :
          /\ Arrives(p)
          /\ ChatStream(p, S1, message)
    \/ \E p \in Requests : Stream(p)
    \/ \E p \in Requests : AgentUpdate(p)
    \/ \E p \in Requests : AgentFinal(p)
    \/ \E p \in Requests : AgentRaises(p)
    \/ \E p \in Requests : AgentEnds(p)

SpecStream == InitStream /\ [][NextStream]_vars

\* Requests to /trigger/discrepancy; the agent may consult the reconciler
\* while it runs.
NextTrigger ==
    \/ \E p \in Requests, tid \in {TXN_A, EMPTY_ID} :
          /\ Arrives(p)
          /\ TriggerDiscrepancy(p, tid)
    \/ \E p \in Requests : Stream(p)
    \/ \E p \in Requests, s \in Sends :
          /\ s = 1 \/ send_pc[IF s = 1 THEN 1 ELSE s - 1] # "idle"
          /\ AgentSend(p, s, RECONCILER_AGENT)
    \/ \E s \in Sends, reply \in {TaskReply(Acknowledgment),
                                  TransportFailure("All connection attempts failed")} :
          SendReply(s, reply)
    \/ \E p \in Requests : AgentFinal(p)
    \/ \E p \in Requests : AgentRaises(p)
    \/ \E p \in Requests : AgentEnds(p)

SpecTrigger == InitStream /\ [][NextTrigger]_vars

\* Requests to /chat on one session and on another, each handled by a task
\* of its own.
NextChat ==
    \/ \E p \in Requests, session_id \in {S1, <<"s2">>},
          message \in {<<"my transfer failed">>, <<"hello">>} :
          /\ Arrives(p)
          /\ Chat(p, session_id, message)
    \/ \E p \in Requests : Stream(p)
    \/ \E p \in Requests : AgentFinal(p)
    \/ \E p \in Requests : AgentRaises(p)
    \/ \E p \in Requests : AgentEnds(p)

SpecChat == InitStream /\ [][NextChat]_vars

\* ------------------- get_transaction_status and fetch_transaction_details
\* HostAgent.get_transaction_status: the listing of self._user_id is read
\* and searched; a found transaction is "resolved" when it is not floating
\* cash.  An exception of query_user_transactions leaves the tool.
GetTransactionStatus(q, tid) ==
    /\ status_call[q].pc = "idle"
    /\ \/ LET txn == FindTransaction(transactions, DUMMY_USER_ID, tid)
          IN status_call' = [status_call EXCEPT ![q] =
                IF txn = <<>>
                THEN [NoStatusCall EXCEPT !.pc = "done", !.transaction_id = tid]
                ELSE [pc |-> "done", transaction_id |-> tid, found |-> TRUE,
                      is_floating_cash |-> txn[1].is_floating_cash,
                      status |-> IF ~txn[1].is_floating_cash THEN "resolved"
                                 ELSE "pending_resolution"]]
       \/ status_call' = [status_call EXCEPT ![q] =
             [NoStatusCall EXCEPT !.pc = "done", !.transaction_id = tid,
                                  !.status = "raised"]]
    /\ UNCHANGED <<transactions, retryVars, checkVars, reportVars, routerVars,
                   sessions, details_call>>

\* fetch_transaction_details up to its first statement: the empty id is
\* rejected, user_id falls back to the tool context, and the row is
\* fetched by id (and user, if one is known); an exception of the
\* connection or of the statement is returned as status error.
FetchTransactionDetails(q, tid, user_id_arg, context_user_id) ==
    /\ details_call[q].pc = "idle"
    /\ LET uid == EffectiveUserId(user_id_arg, context_user_id)
           row == Fetchrow(transactions, tid, uid)
           call == [NoDetailsCall EXCEPT !.transaction_id = tid, !.user_id = uid]
       IN \/ details_call' = [details_call EXCEPT ![q] =
                IF tid = EMPTY_ID
                THEN [call EXCEPT !.pc = "done", !.status = "error"]
                ELSE IF row = <<>>
                THEN [call EXCEPT !.pc = "done", !.status = "not_found"]
                ELSE [call EXCEPT !.pc = "count", !.transaction = row]]
          \/ details_call' = [details_call EXCEPT ![q] =
                [call EXCEPT !.pc = "done", !.status = "error"]]
    /\ UNCHANGED <<transactions, retryVars, checkVars, reportVars, routerVars,
                   sessions, status_call>>

\* Its second statement, on a new connection: SELECT COUNT(*) ... LIKE
\* 'RT%_' || $1, and the dictionary it returns.  An exception of a
\* statement or of a connection is returned as status error.
DetailsCount(q) ==
    /\ details_call[q].pc = "count"
    /\ \/ LET txn == details_call[q].transaction[1]
          IN details_call' = [details_call EXCEPT ![q] =
                [@ EXCEPT !.pc = "done", !.status = "success",
                          !.retry_count =
                              RetryCount(transactions, details_call[q].transaction_id),
                          !.is_discrepancy = txn.is_floating_cash,
                          !.needs_retry = txn.is_floating_cash
                                          /\ ~txn.is_retry_successful]]
       \/ details_call' = [details_call EXCEPT ![q] =
             [@ EXCEPT !.pc = "done", !.status = "error"]]
    /\ UNCHANGED <<transactions, retryVars, checkVars, reportVars, routerVars,
                   sessions, status_call>>

\* The host agent asks for the status of TXN_A, and the reconciler agent
\* for its details, while a retry request of the owner is served.
NextStatus ==
    \/ Call(1, TXN_A, "user_1", "user_1", "user_1")
    \/ Fetch(1)
    \/ Count(1)
    \/ Insert(1)
    \/ UpdateOriginal(1)
    \/ UpdateRetry(1)
    \/ Commit(1)
    \/ Fail(1)
    \/ \E q \in Queries, tid \in {TXN_A, NewTransactionId(1, TXN_A), TXN_BA} :
          GetTransactionStatus(q, tid)
    \/ \E q \in Queries, tid \in {TXN_A, TXN_BA, EMPTY_ID},
          user_id_arg \in {None, "user_1"} :
          FetchTransactionDetails(q, tid, user_id_arg, None)
    \/ \E q \in Queries : DetailsCount(q)

SpecStatus == Init /\ [][NextStatus]_vars

\* ----------------------------------------- the most-recent-100 listing
\* The largest number of transactions initiated after TXN_A.
MaxNewer == 101

\* The id of the n-th transaction initiated after TXN_A.
NewerId(n) == <<"N", DecimalDigits[(n \div 100) + 1]>> \o TwoDigits(n % 100)

\* TXN_A of user_1 and, after it, newer transactions of one owner, each
\* with an initiation time of its own.
InitListing ==
    /\ \E newer \in {0, 99, 100, MaxNewer}, owner \in {"user_1", "user_2"},
          minutes \in {5, 45} :
          transactions =
             [id \in {TXN_A} \cup {NewerId(n) : n \in 1..newer} |->
                IF id = TXN_A
                THEN UnflaggedRow("user_1", 5000, minutes, "failed")
                ELSE [UnflaggedRow(owner, 100, 5, "completed") EXCEPT
                         !.timestamp_initiated =
                            CHOOSE n \in 1..newer : NewerId(n) = id]]
    /\ InitCalls
    /\ InitChecks
    /\ InitRouter
    /\ InitReports(TRUE)

\* The host agent looks transactions up for the current user, through
\* run_discrepancy_check and through get_transaction_status.
NextListing ==
    \/ \E k \in Checks, tid \in {TXN_A, NewerId(1), TXN_Z} :
          CheckCall(k, tid, None)
    \/ \E k \in Checks : CheckQuery(k)
    \/ \E k \in Checks : CheckQueryFails(k)
    \/ \E k \in Checks : CheckUpdate(k)
    \/ \E k \in Checks : CheckUpdateFails(k)
    \/ \E q \in Queries, tid \in {TXN_A, NewerId(1), TXN_Z} :
          GetTransactionStatus(q, tid)

SpecListing == InitListing /\ [][NextListing]_vars

\* ------------------------------------------- a call that is not answered
\* RemoteAgentConnections.send_message gives up after a bounded wait and
\* raises: a request or a reply that is lost is noticed by its timeout.
SpecialistTimeout == TransportFailure("ReadTimeout")

\* The reconciler has the request and its agent has finished the retry.
Served == Len(outbox) >= 1 /\ pc[1] = "done"

\* One session sends to the reconciler.  The request starts a retry of
\* TXN_A there; the reply is the outcome once the retry is over, or the
\* acknowledgment of SimpleRequestHandler with the work still running, or
\* none within the wait of the client.
NextAwait ==
    \/ \E s \in Sends :
          /\ s = 1 \/ send_pc[IF s = 1 THEN 1 ELSE s - 1] = "done"
          /\ SendCall(s, S1, RECONCILER_AGENT)
    \/ /\ Len(outbox) >= 1
       /\ Call(1, TXN_A, "user_1", "user_1", "user_1")
    \/ Fetch(1)
    \/ Count(1)
    \/ Insert(1)
    \/ UpdateOriginal(1)
    \/ UpdateRetry(1)
    \/ Commit(1)
    \/ Fail(1)
    \/ \E s \in Sends :
          /\ Served
          /\ SendReply(s, TaskReply(IF result[1].status = "success"
                                    THEN <<"Transaction successfully retried as ", "RT1_A">>
                                    ELSE <<"Transaction has been escalated. Report ",
                                           "ESC_20250815095959_A">>))
    \/ \E s \in Sends : SendReply(s, TaskReply(Acknowledgment))
    \/ \E s \in Sends : SendReply(s, SpecialistTimeout)

SpecAwait == InitReply /\ [][NextAwait]_vars

\* The wait of the client is bounded, so a pending send is answered or
\* times out; the event loop of the reconciler runs a started tool call on
\* to its end.
FairSpecAwait ==
    /\ SpecAwait
    /\ \A s \in Sends : WF_vars(\E reply \in {TaskReply(Acknowledgment),
                                                SpecialistTimeout} :
                                    SendReply(s, reply))
    /\ WF_vars(Fetch(1) \/ Count(1) \/ Insert(1) \/ UpdateOriginal(1)
                \/ UpdateRetry(1) \/ Commit(1))

\* ================================================================ claims
\* t is the record of attempt n of id, for some n
IsRetryOf(t, id) == \E n \in DOMAIN Digits : t = NewTransactionId(n, id)
RetryRecordsOf(store, id) == {t \in DOMAIN store : IsRetryOf(t, id)}

\* call c returns in this step
Finishes(c) == pc[c] # "done" /\ pc'[c] = "done"
\* call c has returned r-status for transaction id
Returned(c, id, st) ==
    pc[c] = "done" /\ transaction_id[c] = id /\ result[c].status = st

\* C1: under any interleaving of concurrent retry() calls, the number of
\* stored records RT<n>_<id> of one original id never exceeds 2.
C1_AtMostTwoRetryRecords ==
    \A id \in DOMAIN transactions :
        Cardinality(RetryRecordsOf(transactions, id)) <= 2

\* Two attempts of TXN_A are stored and a third concurrent call was refused.
C1_Witness ==
    /\ Cardinality(RetryRecordsOf(transactions, TXN_A)) = 2
    /\ \E c \in Calls : Returned(c, TXN_A, "limit_reached")

C3_LosersRefusedNotFailed ==
    transactions[TXN_A].is_floating_cash =>
        /\ Cardinality({c \in Calls : Returned(c, TXN_A, "success")}) <= 2
        /\ \A c \in Calls :
              (/\ pc[c] = "done"
               /\ transaction_id[c] = TXN_A
               /\ \A at \in InFlight : result[c].exc # <<"PostgresError", at>>)
              => result[c].status \in {"success", "limit_reached", "already_resolved"}

\* C4: the three writes of a retry are atomic.  The table changes only in
\* the step in which a call returns success, and then by all three writes;
\* a call that returns error leaves the table as it is and keeps no write
\* or row lock behind.
C4_ThreeWritesAtomic ==
    [][ /\ transactions' # transactions =>
             \E c \in Calls :
                /\ Finishes(c)
                /\ result'[c].status = "success"
                /\ result'[c].new_transaction_id \notin DOMAIN transactions
                /\ result'[c].new_transaction_id \in DOMAIN transactions'
                /\ transactions'[result'[c].new_transaction_id].is_retry_successful
                /\ transactions'[transaction_id[c]].is_retry_successful
                /\ ~transactions'[transaction_id[c]].manual_escalation_needed
        /\ \A c \in Calls :
              (Finishes(c) /\ result'[c].status = "error") =>
                 /\ transactions' = transactions
                 /\ pending'[c] = <<>>
      ]_vars

\* A call failed at its commit, after its three writes: TXN_A is as it was,
\* no retry record is stored.
C4_Witness ==
    \E c \in Calls :
        /\ Returned(c, TXN_A, "error")
        /\ result[c].exc = <<"PostgresError", "commit">>
        /\ ~transactions[TXN_A].is_retry_successful
        /\ transactions[TXN_A].manual_escalation_needed
        /\ RetryRecordsOf(transactions, TXN_A) = {}

\* the row call c is about to fetch is there and within the call's scope
Finds(c) ==
    /\ transaction_id[c] \in DOMAIN transactions
    /\ user_id[c] \in {None, transactions[transaction_id[c]].user_id}
\* call c fetches in this step (the statement does not fail)
Fetches(c) ==
    /\ pc[c] = "fetch"
    /\ pc'[c] # "fetch"
    /\ \A at \in InFlight : result'[c].exc # <<"PostgresError", at>>

\* C5 as stated: every retry() call on a transaction marked
\* is_retry_successful returns already_resolved and creates no record,
\* whatever its is_floating_cash flag.
C5_AlwaysAlreadyResolved ==
    [][ \A c \in Calls :
           (/\ Fetches(c)
            /\ Finds(c)
            /\ transactions[transaction_id[c]].is_retry_successful)
           => /\ Finishes(c)
              /\ result'[c].status = "already_resolved"
              /\ transactions' = transactions
      ]_vars

\* C5 amended: a retry() call that finds a transaction marked
\* is_retry_successful returns already_resolved when is_floating_cash is
\* true and no_discrepancy when it is false, and creates no record.
C5_ResolvedNeverRetried ==
    [][ \A c \in Calls :
           (/\ Fetches(c)
            /\ Finds(c)
            /\ transactions[transaction_id[c]].is_retry_successful)
           => /\ Finishes(c)
              /\ result'[c].status =
                    IF transactions[transaction_id[c]].is_floating_cash
                    THEN "already_resolved" ELSE "no_discrepancy"
              /\ pending'[c] = <<>>
              /\ transactions' = transactions
      ]_vars

\* TXN_A was retried; a later call on it was answered already_resolved and
\* a call on its retry record no_discrepancy.
C5_Witness ==
    /\ transactions[TXN_A].is_retry_successful
    /\ \E c \in Calls : Returned(c, TXN_A, "already_resolved")
    /\ \E c \in Calls : Returned(c, NewTransactionId(1, TXN_A), "no_discrepancy")

\* C6: retry() evaluates existence, is_floating_cash, is_retry_successful
\* and attempt count < 2 in this order and returns the outcome of the first
\* guard that fails; it returns success only when all four passed.
C6_GuardOrder ==
    [][ \A c \in Calls :
           /\ Fetches(c) =>
                 LET row == transactions[transaction_id[c]]
                 IN IF ~Finds(c)
                    THEN Finishes(c) /\ result'[c].status = "error"
                    ELSE IF ~row.is_floating_cash
                    THEN Finishes(c) /\ result'[c].status = "no_discrepancy"
                    ELSE IF row.is_retry_successful
                    THEN Finishes(c) /\ result'[c].status = "already_resolved"
                    ELSE pc'[c] = "count"
           /\ (pc[c] = "count" /\ pc'[c] = "insert") =>
                 Cardinality({t \in DOMAIN transactions :
                                 LikeRetryOf(t, transaction_id[c])}) < 2
           /\ (pc[c] = "count" /\ Finishes(c) /\ result'[c].exc = <<>>) =>
                 /\ Cardinality({t \in DOMAIN transactions :
                                    LikeRetryOf(t, transaction_id[c])}) >= 2
                 /\ result'[c].status = "limit_reached"
           /\ (Finishes(c) /\ result'[c].status = "success") => pc[c] = "commit"
      ]_vars

\* Every outcome has been returned: a third concurrent call hit the limit,
\* and a call on a retry record found no discrepancy.
C6_Witness ==
    /\ \E c \in Calls : Returned(c, TXN_A, "limit_reached") /\ result[c].retry_count = 2
    /\ \E c \in Calls : Returned(c, TXN_A, "success")

\* C7: a retry() call made on behalf of a user who does not own the
\* transaction returns error and changes nothing, however the user id is
\* supplied (argument, tool context, or not at all).
C7_NoCrossUserRetry ==
    [][ \A c \in Calls :
           (/\ Fetches(c)
            /\ transaction_id[c] \in DOMAIN transactions
            /\ transactions[transaction_id[c]].user_id # caller[c])
           => /\ Finishes(c)
              /\ result'[c].status = "error"
              /\ transactions' = transactions
      ]_vars

\* C8: when retry(id) returns success with attempt n, the store holds
\* RT<n>_<id> with the original's user, amount, type, recipient, device and
\* location, is_floating_cash false and is_retry_successful true; the
\* original is marked is_retry_successful and not manual_escalation_needed;
\* no other record is changed.
C8_SuccessEffect ==
    [][ \A c \in Calls :
           (Finishes(c) /\ result'[c].status = "success") =>
              LET id == transaction_id[c]
                  new == result'[c].new_transaction_id
                  orig == transactions[id]
              IN /\ new = NewTransactionId(result'[c].retry_number, id)
                 /\ DOMAIN transactions' = DOMAIN transactions \cup {new}
                 /\ new \notin DOMAIN transactions
                 /\ transactions'[new].user_id = orig.user_id
                 /\ transactions'[new].amount = orig.amount
                 /\ transactions'[new].transaction_type = orig.transaction_type
                 /\ transactions'[new].recipient_type = orig.recipient_type
                 /\ transactions'[new].recipient_account_id = orig.recipient_account_id
                 /\ transactions'[new].recipient_bank_name_or_ewallet =
                       orig.recipient_bank_name_or_ewallet
                 /\ transactions'[new].device_id = orig.device_id
                 /\ transactions'[new].location_coordinates = orig.location_coordinates
                 /\ ~transactions'[new].is_floating_cash
                 /\ transactions'[new].is_retry_successful
                 /\ transactions'[id] =
                       [orig EXCEPT !.is_retry_successful = TRUE,
                                    !.manual_escalation_needed = FALSE]
                 /\ \A t \in DOMAIN transactions \ {id} :
                       transactions'[t] = transactions[t]
      ]_vars

\* retry(TXN_A) returned success with attempt 1 and RT1_A is stored.
C8_Witness ==
    \E c \in Calls :
        /\ Returned(c, TXN_A, "success")
        /\ result[c].new_transaction_id = NewTransactionId(1, TXN_A)
        /\ NewTransactionId(1, TXN_A) \in DOMAIN transactions
        /\ ~transactions[TXN_A].manual_escalation_needed

\* C9: a retry record RT<n>_<id> is only created when RT<1>_<id> ..
\* RT<n-1>_<id> exist and the original is not marked is_retry_successful.
C9_AttemptsInOrderWhileUnresolved ==
    [][ \A id \in DOMAIN transactions : \A n \in DOMAIN Digits :
           (/\ NewTransactionId(n, id) \notin DOMAIN transactions
            /\ NewTransactionId(n, id) \in DOMAIN transactions')
           => /\ \A k \in 1..(n - 1) : NewTransactionId(k, id) \in DOMAIN transactions
              /\ ~transactions[id].is_retry_successful
      ]_vars

\* per-transaction state of the retry state machine
RESOLVED(id) == transactions[id].is_retry_successful
EXHAUSTED(id) ==
    /\ Cardinality(RetryRecordsOf(transactions, id)) >= 2
    /\ \A t \in RetryRecordsOf(transactions, id) \cup {id} :
          ~transactions[t].is_retry_successful

\* C10: a transaction is RESOLVED from the first successful retry attempt
\* on, EXHAUSTED when 2 attempts exist and none succeeded, and from either
\* terminal state no further retry attempt is created.
C10_TerminalStates ==
    [][ /\ \A c \in Calls :
              (Finishes(c) /\ result'[c].status = "success") =>
                 transactions'[transaction_id[c]].is_retry_successful
        /\ \A id \in DOMAIN transactions :
              (RESOLVED(id) \/ EXHAUSTED(id)) =>
                 RetryRecordsOf(transactions', id) = RetryRecordsOf(transactions, id)
      ]_vars

\* C11: for a transaction of the current user with floating_duration_minutes
\* above 10, no retry record and is_retry_successful false, classify returns
\* a discrepant verdict and the retry that follows returns success with
\* RT1_<id> and attempt number 1 (failures of the store set aside).
C11_ClassifyThenRetrySucceeds ==
    \A k \in Checks :
        (/\ check_pc[k] = "done"
         /\ check_transaction_id[k] = TXN_A
         /\ check_user_id[k] = transactions[TXN_A].user_id
         /\ transactions[TXN_A].floating_duration_minutes > 10
         /\ check_result[k].exc # <<"Exception", "query">>)
        => /\ check_result[k].status = "completed"
           /\ check_result[k].is_floating_cash
           /\ (/\ pc[1] = "done"
               /\ \A at \in InFlight : result[1].exc # <<"PostgresError", at>>)
              => /\ result[1].status = "success"
                 /\ result[1].new_transaction_id = NewTransactionId(1, TXN_A)
                 /\ result[1].retry_number = 1

\* C12: a retry() call that passed the discrepancy and resolution guards
\* and finds k >= 2 retry records of its transaction returns limit_reached
\* with retry_count = k; and every call that returns error, no_discrepancy,
\* already_resolved or limit_reached leaves every record of the store as it
\* was and keeps no write behind.
C12_LimitReachedAndNoEffect ==
    [][ \A c \in DOMAIN pc :
           LET k == Cardinality(RetryRecordsOf(transactions, transaction_id[c]))
           IN /\ (/\ pc[c] = "count"
                  /\ pc'[c] # "count"
                  /\ result'[c].exc # <<"PostgresError", "count">>
                  /\ k >= 2)
                 => /\ Finishes(c)
                    /\ result'[c].status = "limit_reached"
                    /\ result'[c].retry_count = k
              /\ (/\ Finishes(c)
                  /\ result'[c].status \in
                        {"error", "no_discrepancy", "already_resolved", "limit_reached"})
                 => /\ transactions' = transactions
                    /\ pending'[c] = <<>>
      ]_vars

\* C13: for a transaction whose last risk assessment is HIGH, no retry
\* attempt is created: a retry() call made after the alert is blocked
\* before it inserts any record RT<n>_<id>.
C13_HighRiskBlocksRetry ==
    [][ \A id \in DOMAIN risk_level :
           risk_level[id] = "HIGH" =>
              /\ RetryRecordsOf(transactions', id) = RetryRecordsOf(transactions, id)
              /\ \A c \in DOMAIN pc :
                    (transaction_id'[c] = id /\ Finishes(c)) =>
                       result'[c].status # "success"
      ]_vars

ReportFinishes(r) == report_pc[r] # "done" /\ report_pc'[r] = "done"
\* report call r has returned success
Reported(r) == report_pc[r] = "done" /\ report_result[r].status = "success"

\* severity order of the priorities
Severity(p) ==
    IF p = "CRITICAL" THEN 3 ELSE IF p = "HIGH" THEN 2 ELSE IF p = "MEDIUM" THEN 1 ELSE 0
\* the amount rule and the retry-count floor of the priority
AmountRule(amount) ==
    IF amount > 50000 THEN "CRITICAL" ELSE IF amount > 10000 THEN "HIGH" ELSE "LOW"
RetryFloor(count) == IF count >= 2 THEN "MEDIUM" ELSE "LOW"

C16_OneReportMonotonePriority ==
    [][ /\ \A r \in Reports :
              /\ (report_pc[r] = "insert" /\ report_pc'[r] = "update") =>
                    /\ Len(messages') = Len(messages) + 1
                    /\ SubSeq(messages', 1, Len(messages)) = messages
                    /\ messages'[Len(messages')].transaction_id =
                          report_args[r].transaction_id
                    /\ messages'[Len(messages')].report.report_id = report[r].report_id
              /\ (ReportFinishes(r) /\ report_result'[r].status = "success") =>
                    /\ report_pc[r] = "update"
                    /\ messages' = messages
                    /\ report_result'[r].transaction_id = report_args[r].transaction_id
                    /\ \E i \in DOMAIN messages :
                          /\ messages[i].transaction_id = report_args[r].transaction_id
                          /\ messages[i].message_id = report_result'[r].message_id
                          /\ messages[i].report.report_id = report_result'[r].report_id
        /\ Len(messages') =
              Cardinality({r \in Reports : report_pc'[r] = "update" \/
                              (report_pc'[r] = "done" /\ report_result'[r].status = "success")})
        /\ \A r, q \in Reports :
              (/\ Reported(r)'
               /\ Reported(q)'
               /\ report_args'[r].is_success = report_args'[q].is_success
               /\ Cardinality(RetryTransactions(transactions', report_args'[r].transaction_id))
                     = Cardinality(RetryTransactions(transactions', report_args'[q].transaction_id))
               /\ transactions'[report_args'[r].transaction_id].amount
                     <= transactions'[report_args'[q].transaction_id].amount)
              => Severity(report_result'[r].priority) <= Severity(report_result'[q].priority)
      ]_vars

\* Two reports exist, one on TXN_A with amount 10,001 and one on TXN_BA
\* with amount 50,001 and as many retry records: HIGH and CRITICAL.
C16_Witness ==
    /\ Len(messages) = 2
    /\ transactions[TXN_A].amount = 10001
    /\ transactions[TXN_BA].amount = 50001
    /\ \E r, q \in Reports :
          /\ Reported(r)
          /\ report_result[r].transaction_id = TXN_A
          /\ report_result[r].priority = "HIGH"
          /\ Reported(q)
          /\ report_result[q].transaction_id = TXN_BA
          /\ report_result[q].priority = "CRITICAL"
          /\ messages[1].transaction_id # messages[2].transaction_id

\* the report was requested for a MEDIUM or HIGH risk alert
RiskTriggered(rep) == rep.failure_details \in {RiskDetails("MEDIUM"), RiskDetails("HIGH")}
\* the prefix a report of this kind is to carry
ExpectedPrefix(rep) ==
    IF RiskTriggered(rep) THEN <<"R", "I", "S", "K", "_", "E", "S", "C">>
    ELSE IF rep.failure_details = OutcomeDetails(TRUE) THEN <<"S", "U", "C">>
    ELSE <<"E", "S", "C">>
\* id is <prefix>_<14 decimal digits>_<tid>
WellFormedReportId(id, prefix, tid) ==
    /\ Len(id) = Len(prefix) + 16 + Len(tid)
    /\ SubSeq(id, 1, Len(prefix)) = prefix
    /\ id[Len(prefix) + 1] = "_"
    /\ \A i \in (Len(prefix) + 2)..(Len(prefix) + 15) :
          \E d \in DOMAIN DecimalDigits : id[i] = DecimalDigits[d]
    /\ id[Len(prefix) + 16] = "_"
    /\ SubSeq(id, Len(prefix) + 17, Len(id)) = tid

\* C17: every stored report has an id <PREFIX>_<YYYYMMDDHHMMSS>_<id> with
\* PREFIX SUC for a success report, ESC for a standard escalation and
\* RISK_ESC for an escalation triggered by a MEDIUM or HIGH risk alert.
C17_ReportIdFormat ==
    \A i \in DOMAIN messages :
        WellFormedReportId(messages[i].report.report_id,
                           ExpectedPrefix(messages[i].report),
                           messages[i].transaction_id)

\* C18: under any interleaving of create_and_save_report calls the
\* message_id values of the stored reports are pairwise distinct and
\* strictly increasing in the order of insertion, and no call fails
\* because its message_id collides with another one's.
C18_MessageIdsDistinctIncreasing ==
    /\ \A i, j \in DOMAIN messages :
          i < j => messages[i].message_id < messages[j].message_id
    /\ \A r \in Reports :
          report_result[r].exc # <<"UniqueViolationError", "insert">>

\* C19: the report row and manual_escalation_needed = true are written as
\* one unit: every stored report is on a transaction that is marked, or
\* whose mark the reporting call is about to write; and a call that has
\* returned error has left no report row behind.
C19_ReportAndFlagAtomic ==
    /\ \A i \in DOMAIN messages :
          \/ transactions[messages[i].transaction_id].manual_escalation_needed
          \/ \E r \in Reports :
                /\ report_pc[r] = "update"
                /\ report_args[r].transaction_id = messages[i].transaction_id
    /\ Len(messages) =
          Cardinality({r \in Reports : report_pc[r] = "update" \/ Reported(r)})

\* report call r fetches in this step (the statement does not fail)
ReportFetches(r) ==
    /\ report_pc[r] = "fetch"
    /\ report_pc'[r] # "fetch"
    /\ report_result'[r].exc # <<"PostgresError", "fetch">>

\* C20: create_and_save_report on a transaction id that is not in the
\* store, or is a transaction of another user than the scoped one, returns
\* error at its fetch, inserts no row in messages and changes no
\* transaction.
C20_NotFoundNoReport ==
    [][ \A r \in Reports :
           LET tid == report_args[r].transaction_id
           IN (/\ ReportFetches(r)
               /\ \/ tid \notin DOMAIN transactions
                  \/ /\ report_args[r].user_id # None
                     /\ transactions[tid].user_id # report_args[r].user_id)
              => /\ ReportFinishes(r)
                 /\ report_result'[r].status = "error"
                 /\ report_result'[r].report_id = <<>>
                 /\ messages' = messages
                 /\ transactions' = transactions
      ]_vars

\* Reports were asked for an id that does not exist and for TXN_BA, which
\* is not a transaction of user_1: both calls returned error and the
\* messages table is empty.
C20_Witness ==
    /\ messages = <<>>
    /\ \E r, q \in Reports :
          /\ report_pc[r] = "done"
          /\ report_args[r].transaction_id = TXN_Z
          /\ report_result[r] = ReportNotFound
          /\ report_pc[q] = "done"
          /\ report_args[q].transaction_id = TXN_BA
          /\ report_result[q] = ReportNotFound
    /\ ~transactions[TXN_BA].manual_escalation_needed

\* check k has returned a verdict or an exception for a transaction that
\* the listing of its user contains (the listing itself did not fail)
Classified(k) ==
    /\ check_pc[k] = "done"
    /\ check_transaction_id[k] \in DOMAIN transactions
    /\ transactions[check_transaction_id[k]].user_id = check_user_id[k]
    /\ check_result[k].exc # <<"Exception", "query">>

NoOtherFlag(row) ==
    /\ ~row.manual_escalation_needed
    /\ ~row.is_fraudulent_attempt
    /\ ~row.is_cancellation

\* C21: for a transaction found for the user with floating_duration_minutes
\* above 10 the classifier returns is_floating_cash true, a non-empty list
\* of reasons and the recommendation to escalate; at or below 10 with no
\* other flag set it returns false and no reason; and it never recommends
\* to escalate with an empty list of reasons.
C21_VerdictByThreshold ==
    \A k \in Checks :
        Classified(k) =>
           LET row == transactions[check_transaction_id[k]]
               r == check_result[k]
           IN /\ row.floating_duration_minutes > 10
                 => /\ r.status = "completed"
                    /\ r.is_floating_cash
                    /\ r.discrepancy_reasons # <<>>
                    /\ r.recommendation = "escalate_to_reconciler"
              /\ (row.floating_duration_minutes <= 10 /\ NoOtherFlag(row))
                 => /\ r.status = "completed"
                    /\ ~r.is_floating_cash
                    /\ r.discrepancy_reasons = <<>>
              /\ r.recommendation = "escalate_to_reconciler"
                 => r.discrepancy_reasons # <<>>

\* C22: a check whose UPDATE of is_floating_cash / floating_duration_minutes
\* fails still returns the completed, discrepant verdict of the row it
\* listed, and the step leaves the store as it was: the step that ends the
\* update either applies the UPDATE or changes no record.
C22_UpdateFailureKeepsVerdict ==
    [][ \A k \in Checks :
           (check_pc[k] = "update" /\ check_pc'[k] = "done")
           => /\ check_result'[k] = CheckCompleted(transaction[k][1])
              /\ check_result'[k].status = "completed"
              /\ check_result'[k].is_floating_cash
              /\ check_result'[k].exc = <<>>
              /\ \/ transactions' = transactions
                 \/ /\ transactions' =
                          ApplyWrite(transactions,
                                     UpdateWrite(check_transaction_id[k],
                                                 CheckUpdateSet(transaction[k][1])))
                    /\ transactions'[check_transaction_id[k]].is_floating_cash
      ]_vars

\* The check of an unflagged transaction returned the discrepant verdict
\* and the record is still unflagged: the UPDATE failed.
C22_Witness ==
    \E k \in Checks :
        /\ Classified(k)
        /\ check_result[k].status = "completed"
        /\ check_result[k].is_floating_cash
        /\ check_result[k].recommendation = "escalate_to_reconciler"
        /\ ~transactions[check_transaction_id[k]].is_floating_cash
        /\ transactions[check_transaction_id[k]].floating_duration_minutes > 10

\* The status of the most advanced stage the transaction reached.
MostAdvancedStatus(row) ==
    IF row.status_4 # None THEN row.status_4
    ELSE IF row.status_3 # None THEN row.status_3
    ELSE IF row.status_2 # None THEN row.status_2
    ELSE row.status_1

\* The reasons in the fixed order floating, status keyword, manual
\* escalation, fraud, cancellation, with the keyword taken from the given
\* status.
OrderedReasons(row, status) ==
    (IF row.floating_duration_minutes > 10 THEN <<"floating">> ELSE <<>>)
    \o (IF "failed" \in StatusKeywords(status) THEN <<"status indicates failure">>
        ELSE IF "timeout" \in StatusKeywords(status) THEN <<"timeout detected">>
        ELSE IF "processing" \in StatusKeywords(status) THEN <<"stuck in processing">>
        ELSE IF "network" \in StatusKeywords(status) THEN <<"network-related issue">>
        ELSE <<>>)
    \o (IF row.manual_escalation_needed THEN <<"manual escalation flag">> ELSE <<>>)
    \o (IF row.is_fraudulent_attempt THEN <<"fraudulent attempt">> ELSE <<>>)
    \o (IF row.is_cancellation THEN <<"cancelled">> ELSE <<>>)

\* C23: for a discrepant transaction the status-keyword reason is derived
\* from the status of the largest stage i in 1..4 that is present, and the
\* reasons are listed in the order floating, status keyword, manual
\* escalation, fraud, cancellation.
C23_ReasonsFromMostAdvancedStatus ==
    \A k \in Checks :
        (/\ Classified(k)
         /\ transactions[check_transaction_id[k]].floating_duration_minutes > 10)
        => LET row == transactions[check_transaction_id[k]]
           IN /\ check_result[k].status = "completed"
              /\ check_result[k].discrepancy_reasons =
                    OrderedReasons(row, MostAdvancedStatus(row))

\* C24: no task id and no message id is carried by two different outbound
\* calls, of send_message_to_remote_agent or of the direct client, whatever
\* the session state holds.
C24_FreshTaskAndMessageIds ==
    \A i, j \in 1..Len(outbox) :
        i # j => /\ outbox[i].taskId # outbox[j].taskId
                 /\ outbox[i].messageId # outbox[j].messageId

\* C25: any two outbound calls issued in the same session carry the same
\* context id.
C25_StableContextId ==
    \A i, j \in 1..Len(outbox) :
        outbox[i].session_id = outbox[j].session_id
        => outbox[i].contextId = outbox[j].contextId

\* call s is entered in this step
SendEnters(s) == send_pc[s] = "idle" /\ send_pc'[s] # "idle"

\* C26: a call whose target name is equal to a key of the directory routes
\* its request to that entry, whatever else the directory holds; substring
\* matching decides only when no key is equal to the name.
C26_ExactMatchFirst ==
    [][ \A s \in Sends :
           (/\ SendEnters(s)
            /\ \E i \in 1..Len(remote_agent_connections) :
                  remote_agent_connections[i] = send_args'[s].agent_name)
           => /\ Len(outbox') = Len(outbox) + 1
              /\ outbox'[Len(outbox')].to = send_args'[s].agent_name
      ]_vars

\* C27: a call whose target name matches no key of the directory, the
\* directory of a startup that reached no specialist included, returns the
\* "logged for resolution" message, raises nothing and sends no request.
C27_NoMatchSoftFailure ==
    [][ \A s \in Sends :
           (/\ SendEnters(s)
            /\ \A i \in 1..Len(remote_agent_connections) :
                  ~Matches(send_args'[s].agent_name, remote_agent_connections[i]))
           => /\ send_pc'[s] = "done"
              /\ send_result'[s] = SoftFailure
              /\ outbox' = outbox
              /\ remote_agent_connections' = remote_agent_connections
      ]_vars

\* Startup completed with every specialist unreachable, a call was made
\* and answered with the soft failure, and nothing was sent.
C27_Witness ==
    /\ Started
    /\ remote_agent_connections = <<>>
    /\ outbox = <<>>
    /\ \E s \in Sends :
          /\ send_pc[s] = "done"
          /\ send_args[s].agent_name = RECONCILER_AGENT
          /\ send_result[s] = SoftFailure

\* The messages meant for the user that name no detail of the exchange.
GenericMessages ==
    {SoftFailure, LoggedForResolution, Escalated, MultipleAttempts,
     NoDiscrepancyFound, Submitted}

\* an error response, a result that is no task, a failure of the
\* transport, or a task that carries the crash text of the specialist
ErrorShaped(reply) ==
    \/ reply.kind \in {"error", "message", "exception"}
    \/ /\ reply.kind = "task"
       /\ reply.text # <<>>
       /\ reply.text[1] = "ERROR: Reconciler Agent crashed: "

\* C28: for an error-shaped or malformed reply and for a failure of the
\* transport, the returned value is one of the generic messages and holds
\* no fragment of the reply's error text or of the exception's text.
C28_NoInternalErrorText ==
    \A s \in Sends :
        (send_pc[s] = "done" /\ ErrorShaped(send_reply[s]))
        => /\ send_result[s] \in GenericMessages
           /\ \A i \in 1..Len(send_result[s]), j \in 1..Len(send_reply[s].text) :
                 send_result[s][i] # send_reply[s].text[j]

\* the sessions that were started by a trigger
SystemInitiated(session_id) ==
    \E p \in Requests :
        /\ req_pc[p] \in {"running", "done"}
        /\ req[p].endpoint = "/trigger/discrepancy"
        /\ req[p].session_id = session_id

\* C29: a session started by a trigger is created with the trigger
\* metadata in its state, its first turn is the synthesized alert that
\* names the trigger and the transaction of the metadata, and no request
\* of the session goes to a specialist before that turn exists.
C29_TriggeredSessionStartsWithAlert ==
    /\ \A p \in Requests :
          (req_pc[p] \in {"running", "done"} /\ req[p].endpoint = "/trigger/discrepancy")
          => /\ req[p].session_id \in DOMAIN adk_sessions
             /\ adk_sessions[req[p].session_id].state.metadata = req[p].metadata
             /\ adk_sessions[req[p].session_id].turns # <<>>
             /\ LET first == adk_sessions[req[p].session_id].turns[1]
                IN /\ first.kind = "SYSTEM ALERT: discrepancy detected"
                   /\ first.transaction_id = req[p].metadata.transaction_id
                   /\ first.transaction_id # EMPTY_ID
    /\ \A i \in 1..Len(outbox) :
          SystemInitiated(outbox[i].session_id)
          => adk_sessions[outbox[i].session_id].turns # <<>>

\* C30: the events of a finished request to /chat/stream are status
\* events followed by exactly one complete event; nothing but the [DONE]
\* line comes after it.
C30_ExactlyOneComplete ==
    \A p \in Requests :
        (req_pc[p] = "done" /\ req[p].endpoint = "/chat/stream")
        => /\ Cardinality({i \in 1..Len(events[p]) : events[p][i] = "complete"}) = 1
           /\ \A i \in 1..Len(events[p]) :
                 \/ events[p][i] = "status"
                    /\ \E j \in (i + 1)..Len(events[p]) : events[p][j] = "complete"
                 \/ events[p][i] = "complete"
                 \/ events[p][i] = "[DONE]" /\ i = Len(events[p])

\* C33: the retry budget of an original id is consumed only by its own
\* retry records: the attempt count a retry() call computes is the number
\* of stored records RT<n>_<id> of its own transaction, so the call skips
\* no attempt number and returns limit_reached only when that number has
\* reached the limit, whatever records other originals have.
C33_BudgetOnlyOwnRecords ==
    [][ \A c \in DOMAIN pc :
           LET k == Cardinality(RetryRecordsOf(transactions, transaction_id[c]))
           IN (pc[c] = "count" /\ pc'[c] # "count")
                 => IF pc'[c] = "insert"
                    THEN retry_count'[c] = k
                    ELSE result'[c].status = "limit_reached" => k >= RetryLimit
      ]_vars

\* C39: run_discrepancy_check returns a verdict with status completed for
\* every discrepant transaction it finds, whichever of its status stages
\* are present: a check never ends with an exception raised by the
\* classification of a listed row.
C39_AbsentStatusClassified ==
    \A k \in Checks :
        (Classified(k)
         /\ DetectedDiscrepancy(transactions[check_transaction_id[k]]))
        => /\ check_result[k].status = "completed"
           /\ check_result[k].exc = <<>>

\* C36: report_id identifies a report: any two distinct rows of the
\* messages table carry different report ids, also when both are reports
\* of the same kind on the same transaction created in the same second.
C36_ReportIdsDistinct ==
    \A i \in DOMAIN messages, j \in DOMAIN messages :
        i # j => messages[i].report.report_id # messages[j].report.report_id

\* C34: when the retry() calls on one original id run one after the other
\* and nothing else writes to the transaction, at most one retry record is
\* created: a call that succeeds is attempt 1 and leaves the original
\* resolved, every later call on the original that the database serves
\* returns already_resolved, and no call returns limit_reached.
C34_SequentialCallsOneRecord ==
    /\ Cardinality(RetryRecordsOf(transactions, TXN_A)) <= 1
    /\ \A c \in Calls :
          pc[c] = "done"
          => /\ result[c].status # "limit_reached"
             /\ result[c].status = "success"
                => /\ result[c].retry_number = 1
                   /\ result[c].new_transaction_id = NewTransactionId(1, TXN_A)
                   /\ transactions[TXN_A].is_retry_successful
    /\ \A c \in Calls, d \in Calls :
          (/\ c < d
           /\ Returned(c, TXN_A, "success")
           /\ pc[d] = "done"
           /\ transaction_id[d] = TXN_A
           /\ result[d].exc = <<>>)
          => result[d].status = "already_resolved"

\* A call has succeeded and a later call on the same original has been
\* refused as already resolved.
C34_Witness ==
    \E c \in Calls, d \in Calls :
        /\ c < d
        /\ Returned(c, TXN_A, "success")
        /\ Returned(d, TXN_A, "already_resolved")
        /\ Cardinality(RetryRecordsOf(transactions, TXN_A)) = 1

\* C35: between the calls of retry() and create_and_save_report(), every
\* transaction a report row exists for has manual_escalation_needed set: a
\* retry that succeeds after the report does not clear the mark.
C35_ReportedStaysEscalated ==
    (/\ \A r \in Reports : report_pc[r] \in {"idle", "done"}
     /\ \A c \in DOMAIN pc : pc[c] \in {"idle", "done"})
    => \A i \in DOMAIN messages :
          transactions[messages[i].transaction_id].manual_escalation_needed

\* C37: send_message_to_remote_agent returns the "successfully retried"
\* message only for a reply that reports a successful retry: a reply that
\* reports limit reached, escalation, no discrepancy or an error is never
\* turned into it, whatever retry ids its text mentions.
C37_SuccessOnlyForSuccess ==
    \A s \in Sends :
        (/\ send_pc[s] = "done"
         /\ send_result[s] # <<>>
         /\ send_result[s][1] =
               "Good news! The transaction has been successfully retried. New transaction ID: ")
        => /\ send_reply[s].kind = "task"
           /\ send_reply[s].text # <<>>
           /\ send_reply[s].text[1] = "Transaction successfully retried as "

\* C31: within one session the turns are recorded in arrival order: when
\* two chat requests on the same session have both been answered, the user
\* turn and the assistant reply of the request that arrived first both
\* precede the assistant reply of the second in the messages of the session.
C31_TurnsInArrivalOrder ==
    \A p \in Requests, q \in Requests :
        (/\ p < q
         /\ req[p].endpoint = "/chat"
         /\ req[q].endpoint = "/chat"
         /\ req[p].session_id = req[q].session_id
         /\ req[q].session_id \in DOMAIN sessions)
        => LET turns == sessions[req[q].session_id]
           IN \A j \in DOMAIN turns :
                 (turns[j].role = "assistant" /\ turns[j].request = q)
                 => /\ \E i \in 1..(j - 1) :
                          turns[i].role = "user" /\ turns[i].request = p
                    /\ \E i \in 1..(j - 1) :
                          turns[i].role = "assistant" /\ turns[i].request = p

\* C38: once retry(id) has returned success for an original transaction,
\* a get_transaction_status(id) call that finds it reports resolved, never
\* pending_resolution, and fetch_transaction_details(id) reads a row for
\* which needs_retry is false.
C38_StatusResolvedAfterSuccess ==
    [][ \A q \in Queries :
           /\ (/\ status_call[q].pc = "idle"
               /\ status_call'[q].pc = "done"
               /\ status_call'[q].status # "raised"
               /\ \E c \in Calls :
                     Returned(c, status_call'[q].transaction_id, "success"))
              => /\ status_call'[q].found
                 /\ status_call'[q].status = "resolved"
           /\ (/\ details_call[q].pc = "idle"
               /\ details_call'[q].pc = "count"
               /\ \E c \in Calls :
                     Returned(c, details_call'[q].transaction_id, "success"))
              => LET txn == details_call'[q].transaction[1]
                 IN ~(txn.is_floating_cash /\ ~txn.is_retry_successful)
      ]_vars

\* C40: a transaction that is in the store and belongs to the current user
\* is found by run_discrepancy_check and by get_transaction_status: neither
\* answers not found for it, however many newer transactions the user has.
C40_ExistingOwnTransactionFound ==
    /\ \A k \in Checks :
          (/\ check_pc[k] = "done"
           /\ check_transaction_id[k] \in DOMAIN transactions
           /\ transactions[check_transaction_id[k]].user_id = check_user_id[k]
           /\ check_result[k].status # "raised")
          => check_result[k] # CheckNotFound
    /\ \A q \in Queries :
          (/\ status_call[q].pc = "done"
           /\ status_call[q].transaction_id \in DOMAIN transactions
           /\ transactions[status_call[q].transaction_id].user_id = DUMMY_USER_ID
           /\ status_call[q].status # "raised")
          => status_call[q].found

\* The values of send_message_to_remote_agent that are meant for the user.
UserFacing(value) ==
    \/ value \in GenericMessages
    \/ /\ Len(value) = 2
       /\ value[1] \in
             {"Good news! The transaction has been successfully retried. New transaction ID: ",
              "The transaction requires further review and has been escalated. Report ID: "}

\* C32: a send that is awaiting its specialist eventually returns, with a
\* user-facing message also when the wait timed out, and a retry that the
\* request started is not abandoned: it runs on to its end.
C32_AwaitingReturnsAcknowledged ==
    /\ \A s \in Sends :
          (send_pc[s] = "awaiting")
             ~> (send_pc[s] = "done" /\ UserFacing(send_result[s]))
    /\ (pc[1] \in InFlight) ~> (pc[1] = "done")

====
